---------------------------- MODULE Spec2Model ----------------------------
(***************************************************************************)
(* State-machine model of the QuantEdge strategy and position-lifecycle    *)
(* engine (src/trading_engine.py, class TradingEngine) and of the drivers  *)
(* that call it.                                                           *)
(*                                                                         *)
(* Numbers.  The engine computes with Python floats.  Here every price,    *)
(* amount of money, position size, ATR value and fraction is a fixed-point *)
(* integer holding Scale (= 100) units per 1.0: the price 100.00 is 10000, *)
(* the fraction 0.02 is 2, the capital 10000.00 is 1000000.  A product or  *)
(* quotient of two fixed-point numbers is rescaled by Scale (Mul, Div).    *)
(* Leverage is a plain integer.                                            *)
(*                                                                         *)
(* Time.  A timestamp is the number of a candle slot; a calendar day has   *)
(* SlotsPerDay slots, slot 0 of a day being midnight.                      *)
(***************************************************************************)
EXTENDS Integers, Sequences, FiniteSets, TLC

(***************************************************************************)
(* Bounds of the model.                                                    *)
(***************************************************************************)
MaxTrades == 1    \* engine-level runs stop closing at MaxTrades records
MaxOpens == MaxTrades + 1
MaxLog == 3   \* and stop opening at this daily_trade_count

(***************************************************************************)
(* Fixed-point arithmetic.                                                 *)
(***************************************************************************)
Scale == 100
SlotsPerDay == 96     \* candles of timeframe '15m' in one calendar day

Abs(x) == IF x < 0 THEN -x ELSE x
Min(a, b) == IF a <= b THEN a ELSE b
Mul(a, b) == (a * b) \div Scale
Div(a, b) == (a * Scale) \div b
\* floor(100 * Scale * a / b) computed without leaving 32 bits
Percent(a, b) ==
    LET q == (a * 100) \div b
        r == (a * 100) % b
    IN  q * Scale + (r * Scale) \div b

(***************************************************************************)
(* Values.                                                                 *)
(***************************************************************************)
None == [kind |-> "None"]
Timestamp(t) == [kind |-> "Timestamp", t |-> t]
Date(d) == [kind |-> "date", d |-> d]
DateOfSlot(t) == t \div SlotsPerDay
\* Timestamp.date() / the calendar date a stored last_trade_date stands for
DateOf(v) == IF v.kind = "Timestamp" THEN DateOfSlot(v.t) ELSE v.d
IsMidnight(t) == t % SlotsPerDay = 0

(***************************************************************************)
(* Configuration set by TradingEngine.__init__.                            *)
(***************************************************************************)
stop_atr_multiplier == 200       \* 2.0
target_atr_multiplier == 350     \* 3.5
trailing_activation == 150       \* 1.5 (percent)
max_trades_per_day == 8
daily_loss_limit == 8            \* 0.08
TrailingFactor == 75             \* 0.75
LiquidationBuffer == 90          \* 0.9
PositionCap == 50                \* 0.5
NoAtr == -1                      \* should_exit_position's current_atr=None
NoIndex == -1000                 \* check_signal's i=None


(***************************************************************************)
(* The engine state is handled as one record by the operators below; the   *)
(* variables of the module hold its fields.                                *)
(*   capital, position, trades, daily_pnl, daily_trade_count,              *)
(*   last_trade_date, initial_capital, leverage, risk_per_trade            *)
(* An operator that models a method returns [s |-> state after, ret |->    *)
(* returned value].                                                        *)
(***************************************************************************)

\* a Python value used as a condition: None and 0 are false
Truthy(x) == x # NoAtr /\ x # 0

\* `Timestamp != date` as pandas evaluates it.  pandas >= 2.0 treats the two
\* as non-comparable (always unequal); pandas 1.x compares the date as the
\* Timestamp of its midnight.  The set of outcomes the installed pandas can give.
NotEqualDate(v, d) ==
    IF v.kind = "date" THEN {v.d # d}
    ELSE {TRUE, ~(IsMidnight(v.t) /\ DateOfSlot(v.t) = d)}

\* calculate_stops with the stop and target multipliers exchanged
calculate_stops_swapped(s, entry_price, signal_type, atr) ==
    IF signal_type = "long"
    THEN [stop_loss   |-> entry_price - Mul(atr, target_atr_multiplier),
          take_profit |-> entry_price + Mul(atr, stop_atr_multiplier)]
    ELSE [stop_loss   |-> entry_price + Mul(atr, target_atr_multiplier),
          take_profit |-> entry_price - Mul(atr, stop_atr_multiplier)]

calculate_stops(s, entry_price, signal_type, atr) ==
    IF signal_type = "long"
    THEN [stop_loss   |-> entry_price - Mul(atr, stop_atr_multiplier),
          take_profit |-> entry_price + Mul(atr, target_atr_multiplier)]
    ELSE [stop_loss   |-> entry_price + Mul(atr, stop_atr_multiplier),
          take_profit |-> entry_price - Mul(atr, target_atr_multiplier)]

\* calculate_position_size without the cap of lines 304-305
calculate_position_size_uncapped(s, entry_price, stop_loss_price, confidence) ==
    LET risk_amount   == Mul(Mul(s.capital, s.risk_per_trade), confidence)
        stop_distance == Abs(entry_price - stop_loss_price)
    IN  IF stop_distance = 0 THEN 0
        ELSE Div(risk_amount, stop_distance) * s.leverage

\* calculate_position_size without the zero-distance test of lines 298-299:
\* the float quotient is then infinite and the cap of line 305 is returned
calculate_position_size_unguarded(s, entry_price, stop_loss_price, confidence) ==
    LET risk_amount   == Mul(Mul(s.capital, s.risk_per_trade), confidence)
        stop_distance == Abs(entry_price - stop_loss_price)
        max_position  == Mul(s.capital * s.leverage, PositionCap)
    IN  IF stop_distance = 0 THEN max_position
        ELSE Min(Div(risk_amount, stop_distance) * s.leverage, max_position)

calculate_position_size(s, entry_price, stop_loss_price, confidence) ==
    LET risk_amount   == Mul(Mul(s.capital, s.risk_per_trade), confidence)
        stop_distance == Abs(entry_price - stop_loss_price)
        position_size == Div(risk_amount, stop_distance) * s.leverage
        max_position  == Mul(s.capital * s.leverage, PositionCap)
    IN  IF stop_distance = 0 THEN 0 ELSE Min(position_size, max_position)

\* calculate_liquidation_price with the buffer not divided by the leverage
calculate_liquidation_price_unlevered(s, entry_price, position_type) ==
    IF position_type = "long"
    THEN Mul(entry_price, Scale - LiquidationBuffer)
    ELSE Mul(entry_price, Scale + LiquidationBuffer)

calculate_liquidation_price(s, entry_price, position_type) ==
    IF position_type = "long"
    THEN Mul(entry_price, Scale - LiquidationBuffer \div s.leverage)
    ELSE Mul(entry_price, Scale + LiquidationBuffer \div s.leverage)

\* the dict self.position with the key 'trailing_stop' set to v
WithTrailing(p, v) ==
    [k \in DOMAIN p \cup {"trailing_stop"} |->
        IF k = "trailing_stop" THEN v ELSE p[k]]

NoExit == [exit |-> FALSE, reason |-> "None"]
Exit(reason) == [exit |-> TRUE, reason |-> reason]

\* lines 363-375: the static stop-loss / take-profit checks
RegularStops(p, current_price) ==
    IF p.type = "long"
    THEN IF current_price <= p.stop_loss THEN Exit("STOP_LOSS")
         ELSE IF current_price >= p.take_profit THEN Exit("TAKE_PROFIT")
         ELSE NoExit
    ELSE IF current_price >= p.stop_loss THEN Exit("STOP_LOSS")
         ELSE IF current_price <= p.take_profit THEN Exit("TAKE_PROFIT")
         ELSE NoExit

\* lines 342-346
Liquidated(p, current_price) ==
    \/ p.type = "long" /\ current_price <= p.liquidation_price
    \/ p.type = "short" /\ current_price >= p.liquidation_price

\* lines 336-340, in percent
UnrealizedPct(p, current_price) ==
    IF p.type = "long"
    THEN ((current_price - p.entry_price) * 100 * Scale) \div p.entry_price
    ELSE ((p.entry_price - current_price) * 100 * Scale) \div p.entry_price

\* TrailingUpdate that also pulls the stop-loss up to the trailing level
TrailingUpdateMovesStop(p, current_price, current_atr) ==
    LET d == Mul(Mul(current_atr, stop_atr_multiplier), TrailingFactor)
        trailing == IF p.type = "long" THEN current_price - d
                    ELSE current_price + d
        tighter == IF p.type = "long" THEN trailing > p.trailing_stop
                   ELSE trailing < p.trailing_stop
        moved == [WithTrailing(p, trailing) EXCEPT !.stop_loss = trailing]
    IN  IF "trailing_stop" \notin DOMAIN p THEN moved
        ELSE IF tighter THEN moved
        ELSE p

\* TrailingUpdate without the tighten-only test: the candidate always replaces
\* the stored level
TrailingUpdateAlways(p, current_price, current_atr) ==
    LET d == Mul(Mul(current_atr, stop_atr_multiplier), TrailingFactor)
    IN  WithTrailing(p, IF p.type = "long" THEN current_price - d
                        ELSE current_price + d)

\* TrailingUpdate that, once armed, steps the stored level towards the price
\* by the ATR distance instead of recomputing it from the price
TrailingUpdateRatchet(p, current_price, current_atr) ==
    LET d == Mul(Mul(current_atr, stop_atr_multiplier), TrailingFactor)
    IN  IF "trailing_stop" \notin DOMAIN p
        THEN WithTrailing(p, IF p.type = "long" THEN current_price - d
                             ELSE current_price + d)
        ELSE IF p.type = "long" /\ p.trailing_stop + d < current_price
        THEN WithTrailing(p, p.trailing_stop + d)
        ELSE IF p.type = "short" /\ p.trailing_stop - d > current_price
        THEN WithTrailing(p, p.trailing_stop - d)
        ELSE p

\* lines 350-353 and 357-359: the position after the trailing-stop update
TrailingUpdate(p, current_price, current_atr) ==
    LET d == Mul(Mul(current_atr, stop_atr_multiplier), TrailingFactor)
        trailing == IF p.type = "long" THEN current_price - d
                    ELSE current_price + d
        tighter == IF p.type = "long" THEN trailing > p.trailing_stop
                   ELSE trailing < p.trailing_stop
    IN  IF "trailing_stop" \notin DOMAIN p THEN WithTrailing(p, trailing)
        ELSE IF tighter THEN WithTrailing(p, trailing)
        ELSE p

\* lines 354-355 and 360-361
TrailingHit(p, current_price) ==
    IF p.type = "long" THEN current_price <= p.trailing_stop
    ELSE current_price >= p.trailing_stop

\* should_exit_position that arms the trailing stop on the profit alone,
\* without looking at current_atr
should_exit_position_arms_without_atr(s, current_price, current_atr) ==
    IF s.position = None THEN [s |-> s, ret |-> NoExit]
    ELSE
      LET p == s.position
          pnl_pct == UnrealizedPct(p, current_price)
          atr == IF Truthy(current_atr) THEN current_atr ELSE 0
      IN
      IF Liquidated(p, current_price)
      THEN [s |-> s, ret |-> Exit("LIQUIDATION")]
      ELSE IF pnl_pct > trailing_activation
      THEN LET q == TrailingUpdate(p, current_price, atr)
               t == [s EXCEPT !.position = q]
           IN  IF TrailingHit(q, current_price)
               THEN [s |-> t, ret |-> Exit("TRAILING_STOP")]
               ELSE [s |-> t, ret |-> RegularStops(q, current_price)]
      ELSE [s |-> s, ret |-> RegularStops(p, current_price)]

\* should_exit_position with the static stops tested before liquidation
should_exit_position_stops_first(s, current_price, current_atr) ==
    IF s.position = None THEN [s |-> s, ret |-> NoExit]
    ELSE
      LET p == s.position
          pnl_pct == UnrealizedPct(p, current_price)
          static == RegularStops(p, current_price)
      IN
      IF static.exit THEN [s |-> s, ret |-> static]
      ELSE IF Liquidated(p, current_price)
      THEN [s |-> s, ret |-> Exit("LIQUIDATION")]
      ELSE IF Truthy(current_atr) /\ pnl_pct > trailing_activation
      THEN LET q == TrailingUpdate(p, current_price, current_atr)
               t == [s EXCEPT !.position = q]
           IN  IF TrailingHit(q, current_price)
               THEN [s |-> t, ret |-> Exit("TRAILING_STOP")]
               ELSE [s |-> t, ret |-> NoExit]
      ELSE [s |-> s, ret |-> NoExit]

should_exit_position(s, current_price, current_atr) ==
    IF s.position = None THEN [s |-> s, ret |-> NoExit]
    ELSE
      LET p == s.position
          pnl_pct == UnrealizedPct(p, current_price)
      IN
      IF Liquidated(p, current_price)
      THEN [s |-> s, ret |-> Exit("LIQUIDATION")]
      ELSE IF Truthy(current_atr) /\ pnl_pct > trailing_activation
      THEN LET q == TrailingUpdate(p, current_price, current_atr)
               t == [s EXCEPT !.position = q]
           IN  IF TrailingHit(q, current_price)
               THEN [s |-> t, ret |-> Exit("TRAILING_STOP")]
               ELSE [s |-> t, ret |-> RegularStops(q, current_price)]
      ELSE [s |-> s, ret |-> RegularStops(p, current_price)]

\* open_position that notes the capital the engine started with as the
\* position's capital-at-entry
open_position_records_initial_capital(s, signal, timestamp) ==
    LET stops == calculate_stops(s, signal.price, signal.type, signal.atr)
        position_size ==
            calculate_position_size(s, signal.price, stops.stop_loss,
                                    signal.confidence)
    IN
    IF position_size <= 0 THEN [s |-> s, ret |-> FALSE]
    ELSE [s |-> [s EXCEPT
                  !.position = [type |-> signal.type,
                                entry_price |-> signal.price,
                                size |-> position_size,
                                stop_loss |-> stops.stop_loss,
                                take_profit |-> stops.take_profit,
                                liquidation_price |->
                                    calculate_liquidation_price(
                                        s, signal.price, signal.type),
                                entry_time |-> Timestamp(timestamp),
                                entry_capital |-> s.initial_capital,
                                confidence |-> signal.confidence,
                                pattern |-> signal.pattern],
                  !.daily_trade_count = s.daily_trade_count + 1,
                  !.last_trade_date = Timestamp(timestamp)],
          ret |-> TRUE]

\* open_position that takes the margin of the new position out of capital
open_position_reserves_margin(s, signal, timestamp) ==
    LET stops == calculate_stops(s, signal.price, signal.type, signal.atr)
        position_size ==
            calculate_position_size(s, signal.price, stops.stop_loss,
                                    signal.confidence)
        margin == Mul(position_size, signal.price) \div s.leverage
    IN
    IF position_size <= 0 THEN [s |-> s, ret |-> FALSE]
    ELSE [s |-> [s EXCEPT
                  !.capital = s.capital - margin,
                  !.position = [type |-> signal.type,
                                entry_price |-> signal.price,
                                size |-> position_size,
                                stop_loss |-> stops.stop_loss,
                                take_profit |-> stops.take_profit,
                                liquidation_price |->
                                    calculate_liquidation_price(
                                        s, signal.price, signal.type),
                                entry_time |-> Timestamp(timestamp),
                                entry_capital |-> s.capital,
                                confidence |-> signal.confidence,
                                pattern |-> signal.pattern],
                  !.daily_trade_count = s.daily_trade_count + 1,
                  !.last_trade_date = Timestamp(timestamp)],
          ret |-> TRUE]

open_position(s, signal, timestamp) ==
    LET entry_price   == signal.price
        position_type == signal.type
        atr           == signal.atr
        confidence    == signal.confidence
        pattern       == signal.pattern
        stops == calculate_stops(s, entry_price, position_type, atr)
        position_size ==
            calculate_position_size(s, entry_price, stops.stop_loss, confidence)
        liquidation_price ==
            calculate_liquidation_price(s, entry_price, position_type)
    IN
    IF position_size <= 0 THEN [s |-> s, ret |-> FALSE]
    ELSE [s |-> [s EXCEPT
                  !.position = [type |-> position_type,
                                entry_price |-> entry_price,
                                size |-> position_size,
                                stop_loss |-> stops.stop_loss,
                                take_profit |-> stops.take_profit,
                                liquidation_price |-> liquidation_price,
                                entry_time |-> Timestamp(timestamp),
                                entry_capital |-> s.capital,
                                confidence |-> confidence,
                                pattern |-> pattern],
                  !.daily_trade_count = s.daily_trade_count + 1,
                  \* a pandas Timestamp has .date, so the Timestamp is stored
                  !.last_trade_date = Timestamp(timestamp)],
          ret |-> TRUE]

\* RealizedPnl without the liquidation override of lines 425-426
RealizedPnlByPrice(p, exit_price, reason) ==
    IF p.type = "long"
    THEN Mul(exit_price - p.entry_price, p.size)
    ELSE Mul(p.entry_price - exit_price, p.size)

\* lines 420-426: the realized P&L of a close
RealizedPnl(p, exit_price, reason) ==
    LET pnl == IF p.type = "long"
               THEN Mul(exit_price - p.entry_price, p.size)
               ELSE Mul(p.entry_price - exit_price, p.size)
    IN  IF reason = "LIQUIDATION"
        THEN -Mul(p.entry_capital, LiquidationBuffer)
        ELSE pnl

\* close_position that takes a commission of 0.1 % of the exit value out of
\* capital without entering it in the trade record
close_position_charges_fee(s, exit_price, timestamp, reason) ==
    IF s.position = None THEN [s |-> s, ret |-> None]
    ELSE
      LET p == s.position
          pnl == RealizedPnl(p, exit_price, reason)
          fee == Mul(exit_price, p.size) \div 1000
          trade_record == [entry_time |-> p.entry_time,
                           exit_time |-> Timestamp(timestamp),
                           type |-> p.type,
                           entry_price |-> p.entry_price,
                           exit_price |-> exit_price,
                           size |-> p.size,
                           pnl |-> pnl,
                           pnl_percent |-> Percent(pnl, p.entry_capital),
                           reason |-> reason,
                           pattern |-> p.pattern]
      IN  [s |-> [s EXCEPT !.capital = s.capital + pnl - fee,
                           !.daily_pnl = s.daily_pnl + pnl,
                           !.trades = Append(s.trades, trade_record),
                           !.position = None],
           ret |-> trade_record]

\* close_position that books the price-based P&L to capital and applies the
\* liquidation override to the trade record only
close_position_books_price_pnl(s, exit_price, timestamp, reason) ==
    IF s.position = None THEN [s |-> s, ret |-> None]
    ELSE
      LET p == s.position
          booked == RealizedPnlByPrice(p, exit_price, reason)
          pnl == RealizedPnl(p, exit_price, reason)
          trade_record == [entry_time |-> p.entry_time,
                           exit_time |-> Timestamp(timestamp),
                           type |-> p.type,
                           entry_price |-> p.entry_price,
                           exit_price |-> exit_price,
                           size |-> p.size,
                           pnl |-> pnl,
                           pnl_percent |-> Percent(pnl, p.entry_capital),
                           reason |-> reason,
                           pattern |-> p.pattern]
      IN  [s |-> [s EXCEPT !.capital = s.capital + booked,
                           !.daily_pnl = s.daily_pnl + booked,
                           !.trades = Append(s.trades, trade_record),
                           !.position = None],
           ret |-> trade_record]

\* close_position without the test of lines 413-414: a close of a flat engine
\* is booked as a trade without P&L
close_position_records_flat(s, exit_price, timestamp, reason) ==
    IF s.position = None
    THEN LET trade_record == [exit_time |-> Timestamp(timestamp),
                              exit_price |-> exit_price,
                              pnl |-> 0, reason |-> reason]
         IN  [s |-> [s EXCEPT !.trades = Append(s.trades, trade_record)],
              ret |-> trade_record]
    ELSE close_position_books_price_pnl(s, exit_price, timestamp, reason)

close_position(s, exit_price, timestamp, reason) ==
    IF s.position = None THEN [s |-> s, ret |-> None]
    ELSE
      LET p == s.position
          pnl == RealizedPnl(p, exit_price, reason)
          trade_record == [entry_time |-> p.entry_time,
                           exit_time |-> Timestamp(timestamp),
                           type |-> p.type,
                           entry_price |-> p.entry_price,
                           exit_price |-> exit_price,
                           size |-> p.size,
                           pnl |-> pnl,
                           pnl_percent |-> Percent(pnl, p.entry_capital),
                           reason |-> reason,
                           pattern |-> p.pattern]
      IN  [s |-> [s EXCEPT !.capital = s.capital + pnl,
                           !.daily_pnl = s.daily_pnl + pnl,
                           !.trades = Append(s.trades, trade_record),
                           !.position = None],
           ret |-> trade_record]

\* sums and counts over the trade log, as the DataFrame expressions of
\* lines 457-480 compute them
IsWin(pnl) == pnl > 0
\* a loss test that leaves break-even trades out
IsLossStrict(pnl) == pnl < 0
IsLoss(pnl) == pnl <= 0
\* the sum of the pnl column over the rows selected by `rows`: "win", "loss"
\* or "all"
SumPnl(log, rows) ==
    LET keep(pnl) == CASE rows = "win" -> IsWin(pnl)
                       [] rows = "loss" -> IsLoss(pnl)
                       [] OTHER -> TRUE
        sum[k \in 0..Len(log)] ==
            IF k = 0 THEN 0
            ELSE sum[k - 1] + (IF keep(log[k].pnl) THEN log[k].pnl ELSE 0)
    IN  sum[Len(log)]
\* lines 476-480: the longest run of consecutive records with pnl <= 0
MaxLossStreak(log) ==
    LET streak[k \in 0..Len(log)] ==
            IF k = 0 THEN 0
            ELSE IF IsLoss(log[k].pnl) THEN streak[k - 1] + 1 ELSE 0
    IN  IF log = <<>> THEN 0
        ELSE CHOOSE m \in {streak[k] : k \in 1..Len(log)} :
                 \A k \in 1..Len(log) : streak[k] <= m

\* a profit factor that reports 0 when nothing was lost
ProfitFactorZero(total_profit, total_loss) ==
    IF total_loss > 0
    THEN [kind |-> "float", v |-> Div(total_profit, total_loss)]
    ELSE [kind |-> "float", v |-> 0]
\* line 465: total_profit / total_loss, or float('inf')
ProfitFactor(total_profit, total_loss) ==
    IF total_loss > 0
    THEN [kind |-> "float", v |-> Div(total_profit, total_loss)]
    ELSE [kind |-> "inf"]

\* the metrics of lines 457-494.  sharpe_ratio, a float built from a standard
\* deviation and a square root, is not represented.  expectancy is
\* (win_rate / 100) avg_win - (1 - win_rate / 100) avg_loss with win_rate
\* written out as winning_trades / total_trades.
Metrics(s) ==
    LET total_trades   == Len(s.trades)
        winning_trades == Cardinality({k \in 1..Len(s.trades) :
                                          IsWin(s.trades[k].pnl)})
        losing_trades  == total_trades - winning_trades
        total_profit   == SumPnl(s.trades, "win")
        total_loss     == Abs(SumPnl(s.trades, "loss"))
        avg_win  == IF winning_trades > 0
                    THEN total_profit \div winning_trades ELSE 0
        avg_loss == IF losing_trades > 0
                    THEN total_loss \div losing_trades ELSE 0
    IN  [total_trades |-> total_trades,
         winning_trades |-> winning_trades,
         losing_trades |-> losing_trades,
         win_rate |-> Percent(winning_trades, total_trades),
         profit_factor |-> ProfitFactor(total_profit, total_loss),
         net_profit |-> SumPnl(s.trades, "all"),
         avg_win |-> avg_win,
         avg_loss |-> avg_loss,
         expectancy |-> (winning_trades * avg_win - losing_trades * avg_loss)
                            \div total_trades,
         max_consecutive_losses |-> MaxLossStreak(s.trades),
         roi |-> Percent(s.capital - s.initial_capital, s.initial_capital)]

\* analyze_performance that writes the is_loss column of lines 476-479 into
\* the records of the log instead of into the frame built from them
analyze_performance_marks_log(s) ==
    IF s.trades = <<>> THEN [s |-> s, ret |-> None]
    ELSE [s |-> [s EXCEPT !.trades =
                    [k \in 1..Len(s.trades) |->
                        [f \in DOMAIN s.trades[k] \cup {"is_loss"} |->
                            IF f = "is_loss" THEN IsLoss(s.trades[k].pnl)
                            ELSE s.trades[k][f]]]],
          ret |-> Metrics(s)]

\* analyze_performance: works on a DataFrame copied from self.trades
analyze_performance(s) ==
    IF s.trades = <<>> THEN [s |-> s, ret |-> None]
    ELSE [s |-> s, ret |-> Metrics(s)]

(***************************************************************************)
(* Candle frames.  A frame df is [start |-> slot of row 0, rows |-> the     *)
(* rows]; row i (counted from 0 as iloc does) is df.rows[i + 1] and its     *)
(* index value (current.name) is the timestamp df.start + i.  A row holds   *)
(* the columns calculate_indicators leaves in the frame that check_signal   *)
(* reads.  The values the ta library computes (EMAs, RSI, MACD, band        *)
(* position, ATR) and the volume ratio are inputs; the columns the engine   *)
(* derives itself are computed by IndicatorRow.                             *)
(***************************************************************************)
Max(a, b) == IF a >= b THEN a ELSE b

\* calculate_indicators, lines 89-105, for one candle and its predecessor's close
IndicatorRow(prev_close, c) ==
    [open |-> c.open, high |-> c.high, low |-> c.low, close |-> c.close,
     ema_short |-> c.ema_short, ema_mid |-> c.ema_mid, ema_long |-> c.ema_long,
     rsi |-> c.rsi, macd |-> c.macd, macd_signal |-> c.macd_signal,
     macd_hist |-> c.macd - c.macd_signal,
     bb_pband |-> c.bb_pband, atr |-> c.atr, volume_ratio |-> c.volume_ratio,
     body |-> Abs(c.close - c.open),
     upper_wick |-> c.high - Max(c.open, c.close),
     lower_wick |-> Min(c.open, c.close) - c.low,
     range |-> c.high - c.low,
     price_change |-> ((c.close - prev_close) * 100 * Scale) \div prev_close,
     ema_alignment_bull |-> c.ema_short > c.ema_mid /\ c.ema_mid > c.ema_long,
     ema_alignment_bear |-> c.ema_short < c.ema_mid /\ c.ema_mid < c.ema_long]

Row(df, i) == df.rows[i + 1]
RowTime(df, i) == df.start + i
\* df[col].iloc[a:b].max() and .min()
RollMax(df, col, a, b) ==
    CHOOSE m \in {Row(df, k)[col] : k \in a..(b - 1)} :
        \A k \in a..(b - 1) : Row(df, k)[col] <= m
RollMin(df, col, a, b) ==
    CHOOSE m \in {Row(df, k)[col] : k \in a..(b - 1)} :
        \A k \in a..(b - 1) : Row(df, k)[col] >= m

Signal(type, current, pattern, confidence) ==
    [type |-> type, price |-> current.close, atr |-> current.atr,
     pattern |-> pattern, confidence |-> confidence]

\* check_signal, lines 135-282: the entry condition of each pattern and side
PatternConditions(df, i) ==
    LET current == Row(df, i)
        prev    == Row(df, i - 1)
        prev2   == Row(df, i - 2)
        \* pattern 1: trend pullback
        uptrend_context ==
            current.ema_alignment_bull \/ current.ema_short > current.ema_long
        pullback_complete ==
            /\ prev2.close < prev2.ema_short
            /\ prev.close < prev.ema_short
            /\ current.close > current.ema_short
        rsi_oversold_recovery == prev.rsi < 4500 /\ current.rsi > 4500
        macd_turning == current.macd_hist > prev.macd_hist
        bullish_momentum ==
            current.price_change > 0 /\ current.body > Mul(current.range, 50)
        downtrend_context ==
            current.ema_alignment_bear \/ current.ema_short < current.ema_long
        rally_complete ==
            /\ prev2.close > prev2.ema_short
            /\ prev.close > prev.ema_short
            /\ current.close < current.ema_short
        rsi_overbought_rejection == prev.rsi > 5500 /\ current.rsi < 5500
        macd_weakening == current.macd_hist < prev.macd_hist
        bearish_momentum ==
            current.price_change < 0 /\ current.body > Mul(current.range, 50)
        \* pattern 2: mean reversion
        ranging == ~current.ema_alignment_bull /\ ~current.ema_alignment_bear
        at_lower_bb == current.bb_pband < 15
        rsi_oversold == current.rsi < 3500
        hammer_candle == current.lower_wick > Mul(current.body, 150)
        at_upper_bb == current.bb_pband > 85
        rsi_overbought == current.rsi > 6500
        shooting_star == current.upper_wick > Mul(current.body, 150)
        \* pattern 3: momentum breakout
        consolidating ==
            RollMax(df, "high", i - 5, i) - RollMin(df, "low", i - 5, i)
                < current.atr * 3
        breaking_higher == current.close > RollMax(df, "high", i - 5, i - 1)
        volume_surge == current.volume_ratio > 150
        macd_bullish == current.macd > current.macd_signal
        breaking_lower == current.close < RollMin(df, "low", i - 5, i - 1)
        macd_bearish == current.macd < current.macd_signal
        \* pattern 4: simple momentum
        strong_green_candle ==
            /\ current.close > current.open
            /\ current.body > Mul(current.range, 70)
            /\ current.price_change > 50
        rsi_bullish == 4000 < current.rsi /\ current.rsi < 7000
        ema_support == current.close > current.ema_mid
        strong_red_candle ==
            /\ current.close < current.open
            /\ current.body > Mul(current.range, 70)
            /\ current.price_change < -50
        rsi_bearish == 3000 < current.rsi /\ current.rsi < 6000
        ema_resistance == current.close < current.ema_mid
    IN
    [trend_long |->
         uptrend_context /\ (pullback_complete \/ rsi_oversold_recovery)
                         /\ (macd_turning \/ bullish_momentum),
     trend_short |->
         downtrend_context /\ (rally_complete \/ rsi_overbought_rejection)
                           /\ (macd_weakening \/ bearish_momentum),
     bb_bounce |->
         ranging /\ at_lower_bb /\ rsi_oversold
                 /\ (hammer_candle \/ current.price_change > 0),
     bb_rejection |->
         ranging /\ at_upper_bb /\ rsi_overbought
                 /\ (shooting_star \/ current.price_change < 0),
     breakout |->
         consolidating /\ breaking_higher /\ volume_surge /\ macd_bullish,
     breakdown |->
         consolidating /\ breaking_lower /\ volume_surge /\ macd_bearish,
     momentum_long |->
         strong_green_candle /\ rsi_bullish /\ ema_support
                             /\ current.volume_ratio > 120,
     momentum_short |->
         strong_red_candle /\ rsi_bearish /\ ema_resistance
                           /\ current.volume_ratio > 120]

\* DetectPattern with the breakout pattern tested before the other three
DetectPatternBreakoutFirst(df, i) ==
    LET current == Row(df, i)
        c == PatternConditions(df, i)
    IN
    IF c.breakout THEN Signal("long", current, "breakout", 80)
    ELSE IF c.breakdown THEN Signal("short", current, "breakdown", 80)
    ELSE IF c.trend_long THEN Signal("long", current, "trend_pullback", 70)
    ELSE IF c.trend_short THEN Signal("short", current, "trend_pullback", 70)
    ELSE IF c.bb_bounce THEN Signal("long", current, "bb_bounce", 60)
    ELSE IF c.bb_rejection THEN Signal("short", current, "bb_rejection", 60)
    ELSE IF c.momentum_long THEN Signal("long", current, "momentum", 50)
    ELSE IF c.momentum_short THEN Signal("short", current, "momentum", 50)
    ELSE None

\* check_signal, lines 135-291: the four patterns, first match wins
DetectPattern(df, i) ==
    LET current == Row(df, i)
        c == PatternConditions(df, i)
    IN
    IF c.trend_long THEN Signal("long", current, "trend_pullback", 70)
    ELSE IF c.trend_short THEN Signal("short", current, "trend_pullback", 70)
    ELSE IF c.bb_bounce THEN Signal("long", current, "bb_bounce", 60)
    ELSE IF c.bb_rejection THEN Signal("short", current, "bb_rejection", 60)
    ELSE IF c.breakout THEN Signal("long", current, "breakout", 80)
    ELSE IF c.breakdown THEN Signal("short", current, "breakdown", 80)
    ELSE IF c.momentum_long THEN Signal("long", current, "momentum", 50)
    ELSE IF c.momentum_short THEN Signal("short", current, "momentum", 50)
    ELSE None

\* lines 124-127: the daily counters after the date check, given the outcome
\* `differs` of last_trade_date != current.name.date()
ResetDaily(s, differs) ==
    IF s.last_trade_date # None /\ differs
    THEN [s EXCEPT !.daily_trade_count = 0, !.daily_pnl = 0]
    ELSE s

\* lines 129-133: TRUE when a daily limit makes check_signal return None
DailyLimitHit(s) ==
    \/ s.daily_trade_count >= max_trades_per_day
    \/ s.daily_pnl < -Mul(daily_loss_limit, s.capital)

\* check_signal that, when it resets the daily counters, also notes the date
\* of the current row as the last trade date
check_signal_stamps_date(s, df, i, differs) ==
    LET j == IF i = NoIndex THEN -1 ELSE i
    IN  IF j < 5 THEN [s |-> s, ret |-> None]
        ELSE LET t == ResetDaily(s, differs)
                 u == IF t = s THEN s
                      ELSE [t EXCEPT !.last_trade_date =
                                         Date(DateOfSlot(RowTime(df, j)))]
             IN  IF DailyLimitHit(u) THEN [s |-> u, ret |-> None]
                 ELSE [s |-> u, ret |-> DetectPattern(df, j)]

\* check_signal(df, i); i = None stands for the call without an index.
\* `differs` is the outcome of the Timestamp/date comparison of line 125.
check_signal(s, df, i, differs) ==
    LET j == IF i = NoIndex THEN -1 ELSE i
    IN  IF j < 5 THEN [s |-> s, ret |-> None]
        ELSE LET t == ResetDaily(s, differs)
             IN  IF DailyLimitHit(t) THEN [s |-> t, ret |-> None]
                 ELSE [s |-> t, ret |-> DetectPattern(df, j)]

\* the outcomes line 125's comparison can have for row i of df
DateDiffers(s, df, i) ==
    IF s.last_trade_date = None \/ i = NoIndex \/ i < 5 THEN {FALSE}
    ELSE NotEqualDate(s.last_trade_date, DateOfSlot(RowTime(df, i)))

(***************************************************************************)
(* Input data.                                                             *)
(***************************************************************************)
\* a candle with the values the ta library supplies; all EMAs equal (no
\* trend context), MACD on its signal line, ATR 2.00
Candle(o, h, l, c, rsi, pband, vol, ema) ==
    [open |-> o, high |-> h, low |-> l, close |-> c,
     ema_short |-> ema, ema_mid |-> ema, ema_long |-> ema,
     rsi |-> rsi, macd |-> 0, macd_signal |-> 0,
     bb_pband |-> pband, atr |-> 200, volume_ratio |-> vol]

Frame(start, candles) ==
    [start |-> start,
     rows |-> [k \in 1..Len(candles) |->
                 IndicatorRow(candles[IF k = 1 THEN 1 ELSE k - 1].close,
                              candles[k])]]

Flat(c)   == Candle(c, c, c, c, 5000, 50, 100, c)
\* long lower wick at the lower band, RSI 30: a bb_bounce long
Hammer(c) == Candle(c, c, c - 200, c, 3000, 10, 100, c)
\* long upper wick at the upper band, RSI 70: a bb_rejection short
Star(c)   == Candle(c, c + 200, c, c, 7000, 90, 100, c)

\* rows 5 and 6 are the candles of 23:45 of day 0 and 00:00 of day 1
NightFrame ==
    Frame(SlotsPerDay - 6,
          <<Flat(10000), Flat(10000), Flat(10000), Flat(10000),
            Flat(10000), Star(10000), Star(10000)>>)
FirstTime == RowTime(NightFrame, 5)
LastTime == RowTime(NightFrame, Len(NightFrame.rows) - 1)

\* a full-bodied candle from the previous close to c on raised volume, RSI 55:
\* a momentum long when it rises more than 0.5 %, a momentum short when it
\* falls more than 0.5 %
Move(prev, c) ==
    Candle(prev, Max(prev, c), Min(prev, c), c, 5500, 50, 130, prev)
Candles(closes) ==
    [k \in 1..Len(closes) |->
        IF k = 1 THEN Flat(closes[1]) ELSE Move(closes[k - 1], closes[k])]

\* the histories the backtest is run on, by name
FeedCloses(name) ==
    CASE name = "rally" ->
           <<9900, 9900, 9900, 9900, 9900, 10000, 10800, 11600, 12400,
             13200, 14000, 14800, 15600, 16400>>
      [] name = "slump" ->
           <<9900, 9900, 9900, 9900, 9900, 9800, 9000, 8200, 7400, 6600>>
      [] name = "crash" ->
           <<9900, 9900, 9900, 9900, 9900, 10000, 6900, 6900, 6900>>
      [] name = "whipsaw" ->
           <<9900, 9900, 9900, 9900, 9900, 10000, 9500, 10000, 9500, 10000>>
      [] name = "climb" ->
           <<9900, 9900, 9900, 9900, 9900, 10000, 10600, 10800>>
      [] name = "plunge" ->
           <<9900, 9900, 9900, 9900, 9900, 10000, 8100, 8100>>
      [] name = "quiet" ->
           <<9900, 9900, 9900, 9900, 9900, 9900, 9900>>
      [] name = "gap" ->
           <<9900, 9900, 9900, 9900, 9900, 10000, 9000, 9000>>
FeedNames ==
    {"rally", "slump", "crash", "whipsaw", "climb", "plunge", "quiet", "gap"}
\* the ATR column of a history: 2.00, and 0.10 where a single candle of range
\* 1.00 follows a standstill
FeedAtr(name) == IF name = "gap" THEN 10 ELSE 200
WithAtr(candles, atr) ==
    [k \in 1..Len(candles) |-> [candles[k] EXCEPT !.atr = atr]]
\* a history starts at 00:15, or late enough for its row 8 to be the
\* midnight candle of the next day
FeedStarts == {1, SlotsPerDay - 8}
Feed(f) ==
    Frame(f.start, WithAtr(Candles(FeedCloses(f.name)), FeedAtr(f.name)))

\* signals a caller hands to open_position: those check_signal finds on the
\* frame, the signal of scenario 1, and one with ATR 0
ScenarioSignal ==
    [type |-> "long", price |-> 10000, atr |-> 200,
     pattern |-> "unknown", confidence |-> 100]
ZeroAtrSignal == [ScenarioSignal EXCEPT !.atr = 0]
Signals ==
    ({DetectPattern(NightFrame, k) : k \in 5..(Len(NightFrame.rows) - 1)}
        \ {None})
        \cup {ScenarioSignal, ZeroAtrSignal}

\* prices and ATR values of the exit-evaluation runs, around the entry 100.00
EvalPrices == {6900, 9300, 9400, 9700, 9850, 9900,
               10100, 10150, 10300, 10600, 10700, 13100}
EvalAtrs == {0, 200, 400}
\* market prices and ATR of the engine-level runs
MarketPrices == {9400, 10700}
MarketAtrs == {200}
CloseReasons == {"LIQUIDATION", "STOP_LOSS"}
Leverages == {3}
BacktestLeverages == {3, 5}
InitialCapitals == {1000000}
RiskFractions == {2}

\* Frames for scanning the patterns: five quiet rows at 99.00 and a sixth row
\* put together from the parameters q.
\*   trend  how the EMAs of the sixth row are ordered
\*   prior  rows 3 and 4: close against ema_short, and RSI
\*   shape  the sixth candle
\*   calm   FALSE: row 1 carries a spike that ends the consolidation
ScanTrends == {"bull", "up", "flat", "down", "bear"}
ScanPriors == {"below", "level", "above"}
ScanShapes == {"green", "red", "hammer", "star"}
ScanRsis == {3000, 5000, 7000}
ScanBands == {10, 50, 90}
ScanVolumes == {100, 130, 160}
ScanMacds == {-10, 0, 10}
ScanParams ==
    [trend : ScanTrends, prior : ScanPriors, shape : ScanShapes,
     rsi : ScanRsis, pband : ScanBands, vol : ScanVolumes, macd : ScanMacds,
     calm : BOOLEAN]

ScanCandle(q) ==
    LET o == 9900
        c == CASE q.shape = "green" -> 10000
               [] q.shape = "red" -> 9800
               [] OTHER -> 9900
        h == IF q.shape = "star" THEN 10100 ELSE Max(o, c)
        l == IF q.shape = "hammer" THEN 9700 ELSE Min(o, c)
        es == CASE q.trend \in {"bull", "up"} -> 9920
                [] q.trend \in {"bear", "down"} -> 9880
                [] OTHER -> 9900
        em == CASE q.trend \in {"bull", "up"} -> 9910
                [] q.trend \in {"bear", "down"} -> 9890
                [] OTHER -> 9900
        el == CASE q.trend = "bull" -> 9900
                [] q.trend = "bear" -> 9900
                [] OTHER -> em
    IN  [open |-> o, high |-> h, low |-> l, close |-> c,
         ema_short |-> es, ema_mid |-> em, ema_long |-> el,
         rsi |-> q.rsi, macd |-> q.macd, macd_signal |-> 0,
         bb_pband |-> q.pband, atr |-> 200, volume_ratio |-> q.vol]

ScanPrior(q) ==
    CASE q.prior = "below" -> Candle(9900, 9900, 9900, 9900, 4000, 50, 100, 9950)
      [] q.prior = "above" -> Candle(9900, 9900, 9900, 9900, 6000, 50, 100, 9850)
      [] OTHER -> Flat(9900)

ScanFrame(q) ==
    Frame(1, <<Flat(9900),
               IF q.calm THEN Flat(9900)
               ELSE Candle(9900, 10600, 9900, 9900, 5000, 50, 100, 9900),
               Flat(9900), ScanPrior(q), ScanPrior(q), ScanCandle(q)>>)
ScanRow == 5

\* inputs of the position-sizing runs: engines, and entry / stop distance /
\* confidence triples, from a stop two cents away to one 20.00 away
SizingCapitals == {1000000, 500000}
SizingLeverages == {1, 3, 5}
SizingRisks == {1, 2}
SizingEntries == {10000}
SizingDistances == {0, 2, 400, 2000}
SizingConfidences == {50, 60, 70, 80, 100}
SizingSignals ==
    [type : {"long", "short"}, price : SizingEntries, atr : {0, 1, 200, 1000},
     pattern : {"unknown"}, confidence : SizingConfidences]

VARIABLES
    initial_capital,    \* self.initial_capital
    leverage,           \* self.leverage
    risk_per_trade,     \* self.risk_per_trade
    capital,            \* self.capital
    position,           \* self.position: None or a position record
    trades,             \* self.trades: the trade log
    daily_pnl,          \* self.daily_pnl
    daily_trade_count,  \* self.daily_trade_count
    last_trade_date,    \* self.last_trade_date: None, Timestamp or date
    now,                \* timestamp of the candle the caller is at
    call,               \* the last engine call: operation, arguments, result
    run                 \* the driver: its frame, loop index and equity curve

vars == <<initial_capital, leverage, risk_per_trade, capital, position,
          trades, daily_pnl, daily_trade_count, last_trade_date, now, call,
          run>>

\* the engine state as the record the operators work on
Engine ==
    [initial_capital |-> initial_capital, leverage |-> leverage,
     risk_per_trade |-> risk_per_trade, capital |-> capital,
     position |-> position, trades |-> trades, daily_pnl |-> daily_pnl,
     daily_trade_count |-> daily_trade_count,
     last_trade_date |-> last_trade_date]

Becomes(s) ==
    /\ initial_capital' = s.initial_capital
    /\ leverage' = s.leverage
    /\ risk_per_trade' = s.risk_per_trade
    /\ capital' = s.capital
    /\ position' = s.position
    /\ trades' = s.trades
    /\ daily_pnl' = s.daily_pnl
    /\ daily_trade_count' = s.daily_trade_count
    /\ last_trade_date' = s.last_trade_date

\* TradingEngine.__init__
Init ==
    /\ initial_capital \in InitialCapitals
    /\ leverage \in Leverages
    /\ risk_per_trade \in RiskFractions
    /\ capital = initial_capital
    /\ position = None
    /\ trades = <<>>
    /\ daily_pnl = 0
    /\ daily_trade_count = 0
    /\ last_trade_date = None
    /\ now = FirstTime
    /\ call = [op |-> "init"]
    /\ run = [driver |-> "caller"]

(***************************************************************************)
(* Engine-level specification: a caller invokes the methods in any order,  *)
(* with timestamps that never go back.                                     *)
(***************************************************************************)
NextCandle ==
    /\ now < LastTime
    /\ now' = now + 1
    /\ call' = [op |-> "next_candle"]
    /\ UNCHANGED <<initial_capital, leverage, risk_per_trade, capital,
                   position, trades, daily_pnl, daily_trade_count,
                   last_trade_date, run>>

CheckSignal(i) ==
    \E differs \in DateDiffers(Engine, NightFrame, i) :
        LET r == check_signal(Engine, NightFrame, i, differs)
        IN  /\ Becomes(r.s)
            /\ call' = [op |-> "check_signal", i |-> i, ret |-> r.ret,
                        pre |-> Engine]
            /\ UNCHANGED <<now, run>>

OpenPosition(signal) ==
    /\ daily_trade_count < MaxOpens
    /\ LET r == open_position(Engine, signal, now)
       IN  /\ Becomes(r.s)
           /\ call' = [op |-> "open_position", signal |-> signal,
                       timestamp |-> now, ret |-> r.ret, pre |-> Engine]
           /\ UNCHANGED <<now, run>>

ClosePosition(exit_price, reason) ==
    /\ Len(trades) < MaxTrades
    /\ LET r == close_position(Engine, exit_price, now, reason)
       IN  /\ Becomes(r.s)
           /\ call' = [op |-> "close_position", exit_price |-> exit_price,
                       timestamp |-> now, reason |-> reason, ret |-> r.ret,
                       pre |-> Engine]
           /\ UNCHANGED <<now, run>>

\* `rep` marks a call that repeats the previous call's price and ATR
ShouldExit(current_price, current_atr) ==
    LET r == should_exit_position(Engine, current_price, current_atr)
        rep == /\ call.op = "should_exit_position"
               /\ call.current_price = current_price
               /\ call.current_atr = current_atr
    IN  /\ Becomes(r.s)
        /\ call' = [op |-> "should_exit_position",
                    current_price |-> current_price,
                    current_atr |-> current_atr, ret |-> r.ret,
                    pre |-> Engine, rep |-> rep,
                    first |-> IF rep THEN call.ret ELSE r.ret]
        /\ UNCHANGED <<now, run>>

AnalyzePerformance ==
    LET r == analyze_performance(Engine)
    IN  /\ Becomes(r.s)
        /\ call' = [op |-> "analyze_performance", ret |-> r.ret,
                    pre |-> Engine]
        /\ UNCHANGED <<now, run>>

Next ==
    \/ NextCandle
    \/ AnalyzePerformance
    \/ \E i \in {NoIndex, now - NightFrame.start} : CheckSignal(i)
    \/ \E signal \in Signals : OpenPosition(signal)
    \/ \E p \in MarketPrices, reason \in CloseReasons : ClosePosition(p, reason)
    \/ \E p \in MarketPrices, a \in MarketAtrs : ShouldExit(p, a)

Spec == Init /\ [][Next]_vars

(***************************************************************************)
(* Backtest specification: CryptoBacktester.run over one of the histories. *)
(***************************************************************************)
InitBacktest ==
    /\ initial_capital \in InitialCapitals
    /\ leverage \in BacktestLeverages
    /\ risk_per_trade \in RiskFractions
    /\ capital = initial_capital
    /\ position = None
    /\ trades = <<>>
    /\ daily_pnl = 0
    /\ daily_trade_count = 0
    /\ last_trade_date = None
    /\ call = [op |-> "init"]
    /\ \E name \in FeedNames, start \in FeedStarts :
          /\ run = [driver |-> "backtest",
                    df |-> [name |-> name, start |-> start],
                    i |-> 0, pc |-> "loop", equity_curve |-> <<>>,
                    opens |-> 0]
          /\ now = start

\* Equity that values every position as a long
EquityAsLong(s, current_price) ==
    IF s.position = None THEN s.capital
    ELSE s.capital + Mul(current_price - s.position.entry_price,
                         s.position.size)

\* lines 68-75: capital plus the unrealized P&L of the open position
Equity(s, current_price) ==
    IF s.position = None THEN s.capital
    ELSE IF s.position.type = "long"
    THEN s.capital + Mul(current_price - s.position.entry_price,
                         s.position.size)
    ELSE s.capital + Mul(s.position.entry_price - current_price,
                         s.position.size)

\* ExitCheck that closes at the level that was hit (the take-profit, the
\* stop-loss) instead of the current price
ExitCheckAtLevel(s, current_price, current_atr, current_time) ==
    IF s.position = None THEN [s |-> s, exit |-> NoExit, trade |-> None]
    ELSE LET x == should_exit_position(s, current_price, current_atr)
             level == CASE x.ret.reason = "TAKE_PROFIT" ->
                             x.s.position.take_profit
                        [] x.ret.reason = "STOP_LOSS" ->
                             x.s.position.stop_loss
                        [] OTHER -> current_price
         IN  IF x.ret.exit
             THEN LET c == close_position(x.s, level, current_time,
                                          x.ret.reason)
                  IN  [s |-> c.s, exit |-> x.ret, trade |-> c.ret]
             ELSE [s |-> x.s, exit |-> x.ret, trade |-> None]

\* lines 82-87: the exit check of one loop iteration
ExitCheck(s, current_price, current_atr, current_time) ==
    IF s.position = None THEN [s |-> s, exit |-> NoExit, trade |-> None]
    ELSE LET x == should_exit_position(s, current_price, current_atr)
         IN  IF x.ret.exit
             THEN LET c == close_position(x.s, current_price, current_time,
                                          x.ret.reason)
                  IN  [s |-> c.s, exit |-> x.ret, trade |-> c.ret]
             ELSE [s |-> x.s, exit |-> x.ret, trade |-> None]

\* the entry check without the test of line 90
EntryCheckAlways(s, df, i, current_time, differs) ==
    LET g == check_signal(s, df, i, differs)
    IN  IF g.ret = None
        THEN [s |-> g.s, signal |-> None, opened |-> FALSE]
        ELSE LET o == open_position(g.s, g.ret, current_time)
             IN  [s |-> o.s, signal |-> g.ret, opened |-> o.ret]

\* lines 89-94: the entry check of one loop iteration
EntryCheck(s, df, i, current_time, differs) ==
    IF s.position # None THEN [s |-> s, signal |-> None, opened |-> FALSE]
    ELSE LET g == check_signal(s, df, i, differs)
         IN  IF g.ret = None
             THEN [s |-> g.s, signal |-> None, opened |-> FALSE]
             ELSE LET o == open_position(g.s, g.ret, current_time)
                  IN  [s |-> o.s, signal |-> g.ret, opened |-> o.ret]

\* one iteration of the loop of lines 63-94
BacktestStep ==
    /\ run.driver = "backtest"
    /\ run.pc = "loop"
    /\ LET df == Feed(run.df)
           i == run.i
       IN  /\ i < Len(df.rows)
           /\ LET current_time == RowTime(df, i)
                  current_price == Row(df, i).close
                  current_atr == Row(df, i).atr
              IN  \E x \in {ExitCheck(Engine, current_price, current_atr,
                                     current_time)} :
                  \E differs \in DateDiffers(x.s, df, i) :
                  \E e \in {EntryCheck(x.s, df, i, current_time, differs)} :
                        /\ Becomes(e.s)
                        /\ call' = [op |-> "backtest_step",
                                    price |-> current_price,
                                    atr |-> current_atr, exit |-> x.exit,
                                    trade |-> x.trade, signal |-> e.signal,
                                    opened |-> e.opened, pre |-> Engine]
                        /\ run' = [run EXCEPT
                              !.i = i + 1,
                              !.opens = IF e.opened THEN @ + 1 ELSE @,
                              !.equity_curve =
                                  Append(@, [timestamp |-> current_time,
                                             equity |-> Equity(Engine,
                                                          current_price)])]
                        /\ now' = current_time

\* the end of run without the close of lines 96-99
BacktestFinishLeavesOpen ==
    /\ run.driver = "backtest"
    /\ run.pc = "loop"
    /\ run.i = Len(Feed(run.df).rows)
    /\ call' = [op |-> "analyze_results", pre |-> Engine]
    /\ run' = [run EXCEPT !.pc = "done"]
    /\ Becomes(Engine)
    /\ UNCHANGED now

\* lines 96-99: close what is still open after the last candle
BacktestFinish ==
    /\ run.driver = "backtest"
    /\ run.pc = "loop"
    /\ LET df == Feed(run.df)
           last == Len(df.rows) - 1
       IN  /\ run.i = Len(df.rows)
           /\ LET c == close_position(Engine, Row(df, last).close,
                                      RowTime(df, last), "END_OF_DATA")
              IN  /\ Becomes(c.s)
                  /\ call' = [op |-> "close_position",
                              exit_price |-> Row(df, last).close,
                              timestamp |-> RowTime(df, last),
                              reason |-> "END_OF_DATA", ret |-> c.ret,
                              pre |-> Engine]
           /\ run' = [run EXCEPT !.pc = "done"]
           /\ UNCHANGED now

NextBacktest == BacktestStep \/ BacktestFinish

SpecBacktest == InitBacktest /\ [][NextBacktest]_vars

\* positions opened with an entry timestamp of calendar day d, read off the
\* trade log and the open position
OpenedOn(d) ==
    Cardinality({k \in 1..Len(trades) : DateOfSlot(trades[k].entry_time.t) = d})
      + (IF position # None /\ DateOfSlot(position.entry_time.t) = d
         THEN 1 ELSE 0)

(***************************************************************************)
(* Exit-evaluation specification: a position has just been opened on a     *)
(* fresh engine, and should_exit_position is called again and again with   *)
(* any prices and ATR values.                                              *)
(***************************************************************************)
InitExit ==
    /\ initial_capital \in InitialCapitals
    /\ leverage \in Leverages
    /\ risk_per_trade \in RiskFractions
    /\ \E signal \in Signals :
          LET fresh == [initial_capital |-> initial_capital,
                        leverage |-> leverage,
                        risk_per_trade |-> risk_per_trade,
                        capital |-> initial_capital, position |-> None,
                        trades |-> <<>>, daily_pnl |-> 0,
                        daily_trade_count |-> 0, last_trade_date |-> None]
              r == open_position(fresh, signal, FirstTime)
          IN  /\ r.ret
              /\ capital = r.s.capital
              /\ position = r.s.position
              /\ trades = r.s.trades
              /\ daily_pnl = r.s.daily_pnl
              /\ daily_trade_count = r.s.daily_trade_count
              /\ last_trade_date = r.s.last_trade_date
              /\ call = [op |-> "open_position", signal |-> signal,
                         timestamp |-> FirstTime, ret |-> r.ret, pre |-> fresh]
    /\ now = FirstTime
    /\ run = [driver |-> "caller"]

NextExit == \E p \in EvalPrices, a \in EvalAtrs : ShouldExit(p, a)

SpecExit == InitExit /\ [][NextExit]_vars

(***************************************************************************)
(* Pattern-scan specification: check_signal is called on a fresh engine for *)
(* the sixth row of one of the scan frames.                                 *)
(***************************************************************************)
InitPattern ==
    /\ initial_capital \in InitialCapitals
    /\ leverage \in Leverages
    /\ risk_per_trade \in RiskFractions
    /\ capital = initial_capital
    /\ position = None
    /\ trades = <<>>
    /\ daily_pnl = 0
    /\ daily_trade_count = 0
    /\ last_trade_date = None
    /\ call = [op |-> "init"]
    /\ \E q \in ScanParams : run = [driver |-> "scanner", q |-> q]
    /\ now = RowTime(ScanFrame(run.q), ScanRow)

ScanSignal ==
    /\ run.driver = "scanner"
    /\ call.op = "init"
    /\ \E differs \in DateDiffers(Engine, ScanFrame(run.q), ScanRow) :
          LET r == check_signal(Engine, ScanFrame(run.q), ScanRow, differs)
          IN  /\ Becomes(r.s)
              /\ call' = [op |-> "check_signal", i |-> ScanRow,
                          ret |-> r.ret, pre |-> Engine]
              /\ UNCHANGED <<now, run>>

NextPattern == ScanSignal

SpecPattern == InitPattern /\ [][NextPattern]_vars

(***************************************************************************)
(* Position-sizing specification: on a fresh engine of any of the sizing   *)
(* configurations, calculate_position_size is called with any of the       *)
(* inputs, and a flat engine opens a position from any sizing signal.      *)
(***************************************************************************)
InitSizing ==
    /\ initial_capital \in SizingCapitals
    /\ leverage \in SizingLeverages
    /\ risk_per_trade \in SizingRisks
    /\ capital = initial_capital
    /\ position = None
    /\ trades = <<>>
    /\ daily_pnl = 0
    /\ daily_trade_count = 0
    /\ last_trade_date = None
    /\ now = FirstTime
    /\ call = [op |-> "init"]
    /\ run = [driver |-> "sizer"]

SizePosition(entry_price, stop_loss_price, confidence) ==
    /\ call' = [op |-> "calculate_position_size",
                entry_price |-> entry_price,
                stop_loss_price |-> stop_loss_price,
                confidence |-> confidence,
                ret |-> calculate_position_size(Engine, entry_price,
                                                stop_loss_price, confidence),
                pre |-> Engine]
    /\ UNCHANGED <<initial_capital, leverage, risk_per_trade, capital,
                   position, trades, daily_pnl, daily_trade_count,
                   last_trade_date, now, run>>

OpenSized(signal) ==
    /\ position = None
    /\ LET r == open_position(Engine, signal, now)
       IN  /\ Becomes(r.s)
           /\ call' = [op |-> "open_position", signal |-> signal,
                       timestamp |-> now, ret |-> r.ret, pre |-> Engine]
           /\ UNCHANGED <<now, run>>

NextSizing ==
    \/ \E e \in SizingEntries, d \in SizingDistances,
          up \in BOOLEAN, k \in SizingConfidences :
          SizePosition(e, IF up THEN e + d ELSE e - d, k)
    \/ \E signal \in SizingSignals : OpenSized(signal)

SpecSizing == InitSizing /\ [][NextSizing]_vars

(***************************************************************************)
(* Performance specification: analyze_performance on an engine whose log   *)
(* holds up to MaxLog closed trades, break-even trades included.           *)
(***************************************************************************)
PnlValues == {-5000, 0, 5000, 12000}
RECURSIVE PnlLogs(_)
PnlLogs(n) ==
    IF n = 0 THEN {<<>>}
    ELSE PnlLogs(n - 1)
           \cup {Append(l, v) : l \in {m \in PnlLogs(n - 1) : Len(m) = n - 1},
                                v \in PnlValues}
\* the record close_position logs for a long of size 1.00 entered at 100.00
\* with capital `entry_capital` and closed with the given pnl at slot t
LoggedTrade(pnl, entry_capital, t) ==
    [entry_time |-> Timestamp(t - 1),
     exit_time |-> Timestamp(t),
     type |-> "long",
     entry_price |-> 10000,
     exit_price |-> 10000 + pnl,
     size |-> Scale,
     pnl |-> pnl,
     pnl_percent |-> Percent(pnl, entry_capital),
     reason |-> IF pnl > 0 THEN "TAKE_PROFIT" ELSE "STOP_LOSS",
     pattern |-> "bb_bounce"]
CapitalAfter(start, log, k) ==
    LET sum[j \in 0..Len(log)] ==
            IF j = 0 THEN start ELSE sum[j - 1] + log[j]
    IN  sum[k]
TradeLog(start, log) ==
    [k \in 1..Len(log) |->
        LoggedTrade(log[k], CapitalAfter(start, log, k - 1), 2 * k)]

InitAnalyze ==
    /\ initial_capital \in InitialCapitals
    /\ leverage \in Leverages
    /\ risk_per_trade \in RiskFractions
    /\ \E log \in PnlLogs(MaxLog) :
          /\ trades = TradeLog(initial_capital, log)
          /\ capital = CapitalAfter(initial_capital, log, Len(log))
          /\ daily_pnl = capital - initial_capital
          /\ daily_trade_count = Len(log)
    /\ position = None
    /\ last_trade_date = None
    /\ now = 2 * MaxLog
    /\ call = [op |-> "init"]
    /\ run = [driver |-> "analyst"]

NextAnalyze == AnalyzePerformance

SpecAnalyze == InitAnalyze /\ [][NextAnalyze]_vars

(***************************************************************************)
(* Indicator specification: calculate_indicators on a frame of raw         *)
(* candles.  A raw frame is the sequence of its row labels; the candles    *)
(* themselves hold no NaN and no zero volume, so a cell of an indicator    *)
(* column is NaN exactly where its window reaches outside the frame.       *)
(***************************************************************************)
Lookback == 200      \* fetch_live_data(lookback=200)
MinFrame == 100      \* the live loops skip frames of fewer rows
FrameLengths == MinFrame..Lookback
RawFrame(n) == [k \in 1..n |-> k]

IndicatorColumns ==
    {"ema_short", "ema_mid", "ema_long", "rsi", "macd", "macd_signal",
     "macd_hist", "bb", "atr", "volume_sma", "swing_high", "swing_low",
     "price_change", "momentum_3"}
\* the number of leading rows in which the column is NaN
WarmUp(col) ==
    CASE col = "ema_short" -> 12 - 1
      [] col = "ema_mid" -> 26 - 1
      [] col = "ema_long" -> 50 - 1
      [] col = "rsi" -> 14 - 1
      [] col = "macd" -> 26 - 1
      [] col \in {"macd_signal", "macd_hist"} -> (26 - 1) + (9 - 1)
      [] col \in {"bb", "volume_sma"} -> 20 - 1
      [] col = "atr" -> 0
      [] col \in {"swing_high", "swing_low"} -> 10 \div 2
      [] col = "price_change" -> 1
      [] col = "momentum_3" -> 3
\* the number of trailing rows in which the column is NaN: a centered
\* window of 10 takes in the 4 rows after its label
LookAhead(col) ==
    IF col \in {"swing_high", "swing_low"} THEN (10 - 1) \div 2 ELSE 0
IsNaN(col, k, n) == k <= WarmUp(col) \/ k > n - LookAhead(col)
\* DataFrame.dropna(): the rows without a NaN, in their order
dropna(df) ==
    LET n == Len(df)
        keep == {k \in 1..n : \A col \in IndicatorColumns : ~IsNaN(col, k, n)}
        nth(j) == CHOOSE k \in keep : Cardinality({m \in keep : m < k}) = j - 1
    IN  [j \in 1..Cardinality(keep) |-> df[nth(j)]]
calculate_indicators(df) == dropna(df)

InitIndicators ==
    /\ initial_capital \in InitialCapitals
    /\ leverage \in Leverages
    /\ risk_per_trade \in RiskFractions
    /\ capital = initial_capital
    /\ position = None
    /\ trades = <<>>
    /\ daily_pnl = 0
    /\ daily_trade_count = 0
    /\ last_trade_date = None
    /\ now \in FrameLengths
    /\ call = [op |-> "init"]
    /\ run = [driver |-> "indicators"]

\* df = fetch_live_data(); df = calculate_indicators(df), the frame ending
\* at the candle of `now`
CalculateIndicators ==
    /\ call' = [op |-> "calculate_indicators", df |-> RawFrame(now),
                ret |-> calculate_indicators(RawFrame(now))]
    /\ UNCHANGED <<initial_capital, leverage, risk_per_trade, capital,
                   position, trades, daily_pnl, daily_trade_count,
                   last_trade_date, now, run>>

NextIndicators == CalculateIndicators

SpecIndicators == InitIndicators /\ [][NextIndicators]_vars

(***************************************************************************)
(* Snapshot specification: a paper-trading bot whose caller opens and      *)
(* closes positions, writes the state file and restarts the bot.           *)
(***************************************************************************)
NoFile == [kind |-> "NoFile"]
\* str(v): 'YYYY-MM-DD HH:MM:SS' of a Timestamp, 'YYYY-MM-DD' of a date
Text(v) == [kind |-> "str", of |-> v]
\* json.dump(..., default=str) on a position or trade record: numbers and
\* strings are written as they are, a Timestamp through str()
JsonTime(v) == IF v.kind = "Timestamp" THEN Text(v) ELSE v
JsonDict(d) ==
    [f \in DOMAIN d |->
        IF f \in {"entry_time", "exit_time"} THEN JsonTime(d[f]) ELSE d[f]]
\* datetime.fromisoformat(text).date()
DateFromIso(text) == Date(DateOf(text.of))

\* save_state: the content of trading_state.json
save_state(s) ==
    [capital |-> s.capital,
     position |-> IF s.position = None THEN None ELSE JsonDict(s.position),
     trades |-> [k \in 1..Len(s.trades) |-> JsonDict(s.trades[k])],
     daily_pnl |-> s.daily_pnl,
     daily_trade_count |-> s.daily_trade_count,
     last_trade_date |-> IF s.last_trade_date # None
                         THEN Text(s.last_trade_date) ELSE None]
\* load_state on the engine `fresh` the constructor has just set up
load_state(fresh, file) ==
    IF file = NoFile THEN fresh
    ELSE [fresh EXCEPT !.capital = file.capital,
                       !.position = file.position,
                       !.trades = file.trades,
                       !.daily_pnl = file.daily_pnl,
                       !.daily_trade_count = file.daily_trade_count,
                       !.last_trade_date =
                           IF file.last_trade_date # None
                           THEN DateFromIso(file.last_trade_date)
                           ELSE fresh.last_trade_date]
\* TradingEngine.__init__ with the arguments the running bot was built with
Fresh(s) ==
    [initial_capital |-> s.initial_capital, leverage |-> s.leverage,
     risk_per_trade |-> s.risk_per_trade, capital |-> s.initial_capital,
     position |-> None, trades |-> <<>>, daily_pnl |-> 0,
     daily_trade_count |-> 0, last_trade_date |-> None]

InitSnapshot ==
    /\ initial_capital \in InitialCapitals
    /\ leverage \in Leverages
    /\ risk_per_trade \in RiskFractions
    /\ capital = initial_capital
    /\ position = None
    /\ trades = <<>>
    /\ daily_pnl = 0
    /\ daily_trade_count = 0
    /\ last_trade_date = None
    /\ now = FirstTime
    /\ call = [op |-> "init"]
    /\ run = [driver |-> "paper", file |-> NoFile, saved |-> None]

\* `saved` remembers the engine the file was written from
SaveState ==
    /\ run' = [run EXCEPT !.file = save_state(Engine), !.saved = Engine]
    /\ call' = [op |-> "save_state", pre |-> Engine]
    /\ UNCHANGED <<initial_capital, leverage, risk_per_trade, capital,
                   position, trades, daily_pnl, daily_trade_count,
                   last_trade_date, now>>

\* the bot is built anew: PaperTradingBot.__init__ ends with load_state()
LoadState ==
    /\ run.file # NoFile
    /\ Becomes(load_state(Fresh(Engine), run.file))
    /\ call' = [op |-> "load_state", pre |-> Engine]
    /\ UNCHANGED <<now, run>>

NextSnapshot ==
    \/ NextCandle
    \/ \E signal \in Signals : OpenSized(signal)
    \/ \E p \in MarketPrices, reason \in CloseReasons : ClosePosition(p, reason)
    \/ SaveState
    \/ LoadState

SpecSnapshot == InitSnapshot /\ [][NextSnapshot]_vars

(***************************************************************************)
(* API specification: APITradingBot.start runs run_trading_loop in a       *)
(* thread of its own while the Flask handlers answer requests.  No lock    *)
(* is taken anywhere, so a handler can run between any two statements of   *)
(* the loop; the loop is cut where it assigns engine fields.  A handler    *)
(* is taken as one step.                                                   *)
(***************************************************************************)
MaxTicks == MaxTrades + 1
ApiPrices == {9500, 10300, 10800}
ApiAtrs == {200}
ApiSignals == Signals \ {ZeroAtrSignal}
\* trading_state.json as the constructor finds it: absent, or written by
\* save_state while a position was open
ApiFiles(args) ==
    {NoFile} \cup {save_state(open_position(Fresh(args), signal,
                                            FirstTime - 1).s) :
                      signal \in ApiSignals}

\* /api/status
get_status(s, r) ==
    LET perf == analyze_performance(s)
    IN  [s |-> perf.s,
         ret |-> [is_running |-> r.is_running,
                  capital |-> perf.s.capital,
                  initial_capital |-> perf.s.initial_capital,
                  roi |-> Percent(perf.s.capital - perf.s.initial_capital,
                                  perf.s.initial_capital),
                  leverage |-> perf.s.leverage,
                  position |-> perf.s.position,
                  performance |-> perf.ret]]
\* /api/trades and /api/equity: the rows of the database tables
get_trades(s, r) == [s |-> s, ret |-> r.db_trades]
get_equity(s, r) == [s |-> s, ret |-> r.equity_curve]
\* /api/analytics: drawdown from the equity table, running P&L from the log
get_analytics(s, r) ==
    [s |-> s,
     ret |-> [drawdown |-> r.equity_curve,
              cumulative_pnl |->
                  [k \in 1..Len(s.trades) |->
                      SumPnl(SubSeq(s.trades, 1, k), "all")]]]
\* a stop handler that closes the open position at the last price, as the
\* console bot does on a keyboard interrupt
stop_bot_closes_position(s, r) ==
    [s |-> close_position(s, r.price, r.time, "MANUAL_STOP").s,
     ret |-> [status |-> "stopped"]]
\* /api/stop
stop_bot(s, r) == [s |-> s, ret |-> [status |-> "stopped"]]

InitApi ==
    \E ic \in InitialCapitals, lv \in Leverages, rk \in RiskFractions :
      LET args == [initial_capital |-> ic, leverage |-> lv,
                   risk_per_trade |-> rk]
      IN  \E file \in ApiFiles(args) :
            LET e == load_state(Fresh(args), file)
            IN  /\ initial_capital = e.initial_capital
                /\ leverage = e.leverage
                /\ risk_per_trade = e.risk_per_trade
                /\ capital = e.capital
                /\ position = e.position
                /\ trades = e.trades
                /\ daily_pnl = e.daily_pnl
                /\ daily_trade_count = e.daily_trade_count
                /\ last_trade_date = e.last_trade_date
                /\ now = FirstTime
                /\ call = [op |-> "init"]
                /\ run = [driver |-> "api", pc |-> "start",
                          is_running |-> FALSE, tick |-> 0,
                          price |-> 10000, atr |-> 200, time |-> FirstTime,
                          decision |-> NoExit, target |-> e, stable |-> e,
                          equity_curve |-> <<>>, db_trades |-> <<>>,
                          file |-> file, stop_requested |-> FALSE,
                          opens |-> Len(e.trades)
                                      + IF e.position # None THEN 1 ELSE 0]

Loop(pc) == run.driver = "api" /\ run.pc = pc

\* line 327
LoopStart ==
    /\ Loop("start")
    /\ run' = [run EXCEPT !.pc = "while", !.is_running = TRUE]
    /\ call' = [op |-> "run_trading_loop"]
    /\ UNCHANGED <<initial_capital, leverage, risk_per_trade, capital,
                   position, trades, daily_pnl, daily_trade_count,
                   last_trade_date, now>>

\* line 332: while self.is_running
LoopTest ==
    /\ Loop("while")
    /\ run' = [run EXCEPT !.pc = IF run.is_running THEN "fetch"
                                 ELSE "stopped"]
    /\ call' = [op |-> "while", is_running |-> run.is_running]
    /\ UNCHANGED <<initial_capital, leverage, risk_per_trade, capital,
                   position, trades, daily_pnl, daily_trade_count,
                   last_trade_date, now>>

\* lines 337-369: fetch, indicators, equity point.  A failed or short fetch
\* sleeps and starts the next iteration; the exchange delivers MaxTicks
\* frames and fails from then on.
LoopFetch ==
    /\ Loop("fetch")
    /\ \/ /\ run' = [run EXCEPT !.pc = "while"]
          /\ call' = [op |-> "fetch_live_data", ret |-> None]
          /\ UNCHANGED now
       \/ \E current_price \in ApiPrices, current_atr \in ApiAtrs :
            LET current_time == now + 1
                current_equity == Equity(Engine, current_price)
            IN  /\ run.tick < MaxTicks
                /\ run' = [run EXCEPT
                      !.pc = "exit",
                      !.price = current_price,
                      !.atr = current_atr,
                      !.time = current_time,
                      !.equity_curve =
                          Append(@, [timestamp |-> current_time,
                                     equity |-> current_equity,
                                     position_open |-> position # None])]
                /\ call' = [op |-> "save_equity_point",
                            price |-> current_price,
                            equity |-> current_equity, pre |-> Engine]
                /\ now' = current_time
    /\ UNCHANGED <<initial_capital, leverage, risk_per_trade, capital,
                   position, trades, daily_pnl, daily_trade_count,
                   last_trade_date>>

\* lines 372-373: should_exit_position, which may move the trailing stop;
\* `target` is the engine close_position is about to produce
LoopExitCheck ==
    /\ Loop("exit")
    /\ LET x == IF position = None THEN [s |-> Engine, ret |-> NoExit]
                ELSE should_exit_position(Engine, run.price, run.atr)
           c == close_position(x.s, run.price, run.time, x.ret.reason)
       IN  /\ Becomes(x.s)
           /\ run' = [run EXCEPT
                 !.pc = IF x.ret.exit THEN "close_capital" ELSE "entry",
                 !.decision = x.ret,
                 !.target = IF x.ret.exit THEN c.s ELSE x.s,
                 !.stable = IF x.ret.exit THEN @ ELSE x.s]
           /\ call' = [op |-> "should_exit_position",
                       current_price |-> run.price,
                       current_atr |-> run.atr, ret |-> x.ret,
                       pre |-> Engine]
    /\ UNCHANGED now

\* close_position, line 428: self.capital += pnl
LoopCloseCapital ==
    /\ Loop("close_capital")
    /\ Becomes([Engine EXCEPT !.capital = run.target.capital])
    /\ run' = [run EXCEPT !.pc = "close_daily_pnl"]
    /\ call' = [op |-> "close_position", line |-> 428]
    /\ UNCHANGED now

\* close_position, line 430: self.daily_pnl += pnl
LoopCloseDailyPnl ==
    /\ Loop("close_daily_pnl")
    /\ Becomes([Engine EXCEPT !.daily_pnl = run.target.daily_pnl])
    /\ run' = [run EXCEPT !.pc = "close_log"]
    /\ call' = [op |-> "close_position", line |-> 430]
    /\ UNCHANGED now

\* close_position, line 445: self.trades.append(trade_record)
LoopCloseLog ==
    /\ Loop("close_log")
    /\ Becomes([Engine EXCEPT !.trades = run.target.trades])
    /\ run' = [run EXCEPT !.pc = "close_clear"]
    /\ call' = [op |-> "close_position", line |-> 445]
    /\ UNCHANGED now

\* close_position, line 446: self.position = None
LoopCloseClear ==
    /\ Loop("close_clear")
    /\ Becomes([Engine EXCEPT !.position = run.target.position])
    /\ run' = [run EXCEPT !.pc = "persist", !.stable = run.target]
    /\ call' = [op |-> "close_position", line |-> 446]
    /\ UNCHANGED now

\* lines 375-376: save_trade_to_db and save_state.  sqlite3 binds no
\* subclass of datetime, so the insert of the Timestamp exit_time can raise;
\* the handler of line 398 then sleeps and starts the next iteration.
LoopPersist ==
    /\ Loop("persist")
    /\ \/ run' = [run EXCEPT
              !.pc = "entry",
              !.db_trades =
                  Append(@, [trade |-> trades[Len(trades)],
                             capital_after |-> capital]),
              !.file = save_state(Engine)]
       \/ run' = [run EXCEPT !.pc = "while", !.tick = @ + 1]
    /\ call' = [op |-> "save_trade_to_db"]
    /\ UNCHANGED <<initial_capital, leverage, risk_per_trade, capital,
                   position, trades, daily_pnl, daily_trade_count,
                   last_trade_date, now>>

\* lines 379-386: check_signal(df), called without a row index, and the open
LoopEntry ==
    /\ Loop("entry")
    /\ \E e \in {EntryCheck(Engine, NightFrame, NoIndex, run.time, FALSE)} :
           /\ Becomes(e.s)
           /\ run' = [run EXCEPT
                 !.pc = "while",
                 !.tick = @ + 1,
                 !.stable = e.s,
                 !.target = e.s,
                 !.opens = IF e.opened THEN @ + 1 ELSE @,
                 !.file = IF e.opened THEN save_state(e.s) ELSE @]
           /\ call' = [op |-> "entry_check", signal |-> e.signal,
                       opened |-> e.opened, pre |-> Engine]
    /\ UNCHANGED now

\* the Flask handlers
GetStatus ==
    /\ run.driver = "api"
    /\ LET r == get_status(Engine, run)
       IN  /\ Becomes(r.s)
           /\ call' = [op |-> "get_status", ret |-> r.ret, pre |-> Engine]
    /\ UNCHANGED <<now, run>>

GetTrades ==
    /\ run.driver = "api"
    /\ LET r == get_trades(Engine, run)
       IN  /\ Becomes(r.s)
           /\ call' = [op |-> "get_trades", rows |-> r.ret, pre |-> Engine]
    /\ UNCHANGED <<now, run>>

GetEquity ==
    /\ run.driver = "api"
    /\ LET r == get_equity(Engine, run)
       IN  /\ Becomes(r.s)
           /\ call' = [op |-> "get_equity", rows |-> r.ret, pre |-> Engine]
    /\ UNCHANGED <<now, run>>

GetAnalytics ==
    /\ run.driver = "api"
    /\ LET r == get_analytics(Engine, run)
       IN  /\ Becomes(r.s)
           /\ call' = [op |-> "get_analytics", ret |-> r.ret, pre |-> Engine]
    /\ UNCHANGED <<now, run>>

StopBot ==
    /\ run.driver = "api"
    /\ LET r == stop_bot(Engine, run)
       IN  /\ Becomes(r.s)
           /\ call' = [op |-> "stop_bot", ret |-> r.ret, pre |-> Engine]
    /\ run' = [run EXCEPT !.is_running = FALSE, !.stop_requested = TRUE]
    /\ UNCHANGED now

NextApi ==
    \/ LoopStart
    \/ LoopTest
    \/ LoopFetch
    \/ LoopExitCheck
    \/ LoopCloseCapital
    \/ LoopCloseDailyPnl
    \/ LoopCloseLog
    \/ LoopCloseClear
    \/ LoopPersist
    \/ LoopEntry
    \/ GetStatus
    \/ GetTrades
    \/ GetEquity
    \/ GetAnalytics
    \/ StopBot

SpecApi == InitApi /\ [][NextApi]_vars

\* the statements of the trading thread.  The thread is a daemon of a
\* process that serves HTTP until it is killed, and every wait in the loop
\* is a sleep of fixed length: the thread always gets to take its next step.
\* Requests arrive when clients send them.
TradingThread ==
    \/ LoopStart
    \/ LoopTest
    \/ LoopFetch
    \/ LoopExitCheck
    \/ LoopCloseCapital
    \/ LoopCloseDailyPnl
    \/ LoopCloseLog
    \/ LoopCloseClear
    \/ LoopPersist
    \/ LoopEntry
SpecApiFair == InitApi /\ [][NextApi]_vars /\ WF_vars(TradingThread)

\* the two loops that record an equity curve
SpecLoops ==
    (InitBacktest \/ InitApi) /\ [][NextBacktest \/ NextApi]_vars

(***************************************************************************)
(* Paper-trading specification: PaperTradingBot.run, a loop in the main    *)
(* thread.  One step is one iteration; Ctrl-C arrives while the loop       *)
(* sleeps, and the bot can then be started again on the state file.        *)
(***************************************************************************)
InitPaper ==
    \E ic \in InitialCapitals, lv \in Leverages, rk \in RiskFractions :
      LET args == [initial_capital |-> ic, leverage |-> lv,
                   risk_per_trade |-> rk]
      IN  \E file \in ApiFiles(args) :
            LET e == load_state(Fresh(args), file)
            IN  /\ initial_capital = e.initial_capital
                /\ leverage = e.leverage
                /\ risk_per_trade = e.risk_per_trade
                /\ capital = e.capital
                /\ position = e.position
                /\ trades = e.trades
                /\ daily_pnl = e.daily_pnl
                /\ daily_trade_count = e.daily_trade_count
                /\ last_trade_date = e.last_trade_date
                /\ now = FirstTime
                /\ call = [op |-> "init"]
                /\ run = [driver |-> "paper_trader", pc |-> "loop",
                          tick |-> 0, file |-> file,
                          opens |-> Len(e.trades)
                                      + IF e.position # None THEN 1 ELSE 0]

\* lines 138-172: one iteration.  A failed or short fetch sleeps and starts
\* the next one; save_state follows a close (line 160) and an open (line 168).
PaperStep ==
    /\ run.driver = "paper_trader"
    /\ run.pc = "loop"
    /\ run.tick < MaxTicks
    /\ \/ /\ run' = [run EXCEPT !.tick = @ + 1]
          /\ call' = [op |-> "fetch_live_data", ret |-> None]
          /\ Becomes(Engine)
          /\ UNCHANGED now
       \/ \E current_price \in ApiPrices, current_atr \in ApiAtrs :
            \E current_time \in {now + 1} :
            \E x \in {ExitCheck(Engine, current_price, current_atr,
                               current_time)} :
            \E closed \in {IF x.trade # None THEN save_state(x.s)
                            ELSE run.file} :
            \E e \in {EntryCheck(x.s, NightFrame, NoIndex, current_time,
                                 FALSE)} :
                /\ Becomes(e.s)
                /\ run' = [run EXCEPT
                      !.tick = @ + 1,
                      !.opens = IF e.opened THEN @ + 1 ELSE @,
                      !.file = IF e.opened THEN save_state(e.s) ELSE closed]
                /\ call' = [op |-> "paper_step", price |-> current_price,
                            atr |-> current_atr, exit |-> x.exit,
                            trade |-> x.trade, signal |-> e.signal,
                            opened |-> e.opened, pre |-> Engine]
                /\ now' = current_time

\* lines 186-197: KeyboardInterrupt; an open position is closed at the price
\* of a new fetch, at datetime.now(), unless the fetch fails
PaperInterrupt ==
    /\ run.driver = "paper_trader"
    /\ run.pc = "loop"
    /\ \/ /\ position # None
          /\ \E current_price \in ApiPrices :
               LET c == close_position(Engine, current_price, now + 1,
                                       "MANUAL_STOP")
               IN  /\ Becomes(c.s)
                   /\ run' = [run EXCEPT !.pc = "stopped",
                                         !.file = save_state(c.s)]
                   /\ call' = [op |-> "close_position",
                               exit_price |-> current_price,
                               timestamp |-> now + 1,
                               reason |-> "MANUAL_STOP", ret |-> c.ret,
                               pre |-> Engine]
                   /\ now' = now + 1
       \/ /\ Becomes(Engine)
          /\ run' = [run EXCEPT !.pc = "stopped"]
          /\ call' = [op |-> "print_final_stats", pre |-> Engine]
          /\ UNCHANGED now

\* the bot is started again: __init__ and load_state (lines 13-21, 38-59)
PaperRestart ==
    /\ run.driver = "paper_trader"
    /\ run.pc = "stopped"
    /\ run.tick < MaxTicks
    /\ Becomes(load_state(Fresh(Engine), run.file))
    /\ run' = [run EXCEPT !.pc = "loop"]
    /\ call' = [op |-> "load_state", pre |-> Engine]
    /\ UNCHANGED now

NextPaper == PaperStep \/ PaperInterrupt \/ PaperRestart

SpecPaper == InitPaper /\ [][NextPaper]_vars

\* the backtest and the two live loops
SpecDrivers ==
    (InitBacktest \/ InitApi \/ InitPaper)
        /\ [][NextBacktest \/ NextApi \/ NextPaper]_vars

(***************************************************************************)
(* Claims.  `call` holds the last call with its arguments, its result and  *)
(* `pre`, the engine state it started from.                                *)
(***************************************************************************)
Days == 0..1
Closing == call.op = "close_position" /\ call.pre.position # None
Evaluating == call.op = "should_exit_position" /\ call.pre.position # None
Armed(p) == "trailing_stop" \in DOMAIN p

\* P&L of the records of log whose exit timestamp falls on calendar day d
PnlClosedOn(log, d) ==
    LET sum[k \in 0..Len(log)] ==
            IF k = 0 THEN 0
            ELSE sum[k - 1] + (IF DateOfSlot(log[k].exit_time.t) = d
                               THEN log[k].pnl ELSE 0)
    IN  sum[Len(log)]

\* C1: open_position called while a position is open is refused and leaves
\* the position, daily_trade_count and last_trade_date as they were.
C1_OpenWhileOpenIsRefused ==
    (call.op = "open_position" /\ call.pre.position # None)
        => /\ call.ret = FALSE
           /\ position = call.pre.position
           /\ daily_trade_count = call.pre.daily_trade_count
           /\ last_trade_date = call.pre.last_trade_date

\* C2: after close_position on an open position, for every exit price and
\* reason, capital is the capital before plus the P&L written to the trade
\* record, and position is none.
C2_CloseBooksRecordedPnl ==
    Closing => /\ Len(trades) = Len(call.pre.trades) + 1
               /\ capital = call.pre.capital + trades[Len(trades)].pnl
               /\ trades[Len(trades)] = call.ret
               /\ position = None
C2_Witness ==
    /\ Closing
    /\ call.reason = "LIQUIDATION"
    /\ call.exit_price > call.pre.position.entry_price
    /\ call.pre.position.type = "long"

\* C3: a close with reason LIQUIDATION realizes exactly -0.9 x the position's
\* capital-at-entry, long or short, whatever exit price is passed.
C3_LiquidationPnlIsBufferLoss ==
    (Closing /\ call.reason = "LIQUIDATION")
        => /\ call.ret.pnl
                = -Mul(call.pre.position.entry_capital, LiquidationBuffer)
           /\ capital - call.pre.capital = call.ret.pnl
C3_Witness ==
    /\ Closing
    /\ call.reason = "LIQUIDATION"
    /\ call.pre.position.type = "short"
    /\ call.exit_price < call.pre.position.entry_price
    /\ call.ret.pnl < 0

\* C4: should_exit_position on a long at or below its liquidation price, or
\* on a short at or above it, returns LIQUIDATION even when the trailing-stop,
\* stop-loss or take-profit condition holds at that price too.
C4_LiquidationFirst ==
    (/\ Evaluating
     /\ \/ /\ call.pre.position.type = "long"
           /\ call.current_price <= call.pre.position.liquidation_price
        \/ /\ call.pre.position.type = "short"
           /\ call.current_price >= call.pre.position.liquidation_price)
        => call.ret = [exit |-> TRUE, reason |-> "LIQUIDATION"]
C4_Witness ==
    /\ Evaluating
    /\ call.ret.reason = "LIQUIDATION"
    /\ call.pre.position.type = "long"
    /\ call.current_price <= call.pre.position.stop_loss
    /\ Armed(call.pre.position)
    /\ call.current_price <= call.pre.position.trailing_stop

\* C5: once armed, the stored trailing stop never moves against the
\* favourable direction in a should_exit_position call, whatever the price
\* and ATR: non-decreasing for a long, non-increasing for a short.
C5_TrailingOnlyTightens ==
    (Evaluating /\ Armed(call.pre.position))
        => /\ position # None
           /\ Armed(position)
           /\ position.type = "long"
                => position.trailing_stop >= call.pre.position.trailing_stop
           /\ position.type = "short"
                => position.trailing_stop <= call.pre.position.trailing_stop
\* a candidate below a long's stored level was computed and discarded
C5_Witness ==
    /\ Evaluating
    /\ Armed(call.pre.position)
    /\ call.pre.position.type = "long"
    /\ Truthy(call.current_atr)
    /\ UnrealizedPct(call.pre.position, call.current_price)
          > trailing_activation
    /\ call.current_price
          - Mul(Mul(call.current_atr, stop_atr_multiplier), TrailingFactor)
          < call.pre.position.trailing_stop
    /\ position.trailing_stop = call.pre.position.trailing_stop

\* C6: once armed, a should_exit_position call at a price that has crossed
\* the stored trailing level, with no liquidation, returns TRAILING_STOP, also
\* when the unrealized P&L% is back at or below the activation threshold.
C6_CrossedTrailingLevelExits ==
    (/\ Evaluating
     /\ Armed(call.pre.position)
     /\ call.pre.position.type = "long"
          => /\ call.current_price <= call.pre.position.trailing_stop
             /\ call.current_price > call.pre.position.liquidation_price
     /\ call.pre.position.type = "short"
          => /\ call.current_price >= call.pre.position.trailing_stop
             /\ call.current_price < call.pre.position.liquidation_price)
        => call.ret = [exit |-> TRUE, reason |-> "TRAILING_STOP"]

\* C7: a check_signal call whose row has the calendar date of the last
\* opened trade never zeroes daily_trade_count and daily_pnl.
C7_NoResetWithinTheDay ==
    (/\ call.op = "check_signal"
     /\ call.i >= 5
     /\ call.pre.last_trade_date # None
     /\ DateOf(call.pre.last_trade_date)
          = DateOfSlot(RowTime(NightFrame, call.i)))
        => /\ daily_trade_count = call.pre.daily_trade_count
           /\ daily_pnl = call.pre.daily_pnl

\* C8: once max_trades_per_day (8) positions have been opened on a date,
\* check_signal returns none for the rest of that date, so no ninth position
\* is opened on that date.
C8_NoNinthPositionOnADate ==
    \A d \in Days : OpenedOn(d) <= max_trades_per_day

\* C9: when the closes of a date have brought that date's realized P&L below
\* -(daily_loss_limit x capital), check_signal for a row of that date returns
\* none.
C9_LossLimitBlocksSignals ==
    (/\ call.op = "check_signal"
     /\ call.i >= 5
     /\ PnlClosedOn(trades, DateOfSlot(RowTime(NightFrame, call.i)))
          < -Mul(daily_loss_limit, capital))
        => call.ret = None

\* C10: a should_exit_position call that repeats the previous call's price
\* and ATR leaves every field of the position unchanged and returns the
\* decision the first call returned.
C10_RepeatedEvaluationIsIdempotent ==
    (Evaluating /\ call.rep)
        => /\ position = call.pre.position
           /\ call.ret = call.first
\* the first of the two calls armed or tightened the trailing stop
C10_Witness ==
    /\ Evaluating
    /\ call.rep
    /\ Armed(position)
    /\ Truthy(call.current_atr)
    /\ position.trailing_stop
         = IF position.type = "long"
           THEN call.current_price
                  - Mul(Mul(call.current_atr, stop_atr_multiplier),
                        TrailingFactor)
           ELSE call.current_price
                  + Mul(Mul(call.current_atr, stop_atr_multiplier),
                        TrailingFactor)


\* C11: with a zero stop distance (entry equal to the stop-loss, as with
\* ATR 0) calculate_position_size returns 0 and open_position fails: it
\* returns False and leaves position, capital, the trade log,
\* daily_trade_count and last_trade_date as they were.
ZeroDistance(signal) ==
    calculate_stops(Engine, signal.price, signal.type, signal.atr).stop_loss
        = signal.price
C11_ZeroStopDistanceOpensNothing ==
    (call.op = "open_position" /\ ZeroDistance(call.signal))
        => /\ call.ret = FALSE
           /\ position = call.pre.position
           /\ capital = call.pre.capital
           /\ trades = call.pre.trades
           /\ daily_trade_count = call.pre.daily_trade_count
           /\ last_trade_date = call.pre.last_trade_date
C11_Witness ==
    /\ call.op = "open_position"
    /\ call.signal.atr = 0
    /\ ZeroDistance(call.signal)
    /\ call.pre.position = None
    /\ position = None
    /\ call.ret = FALSE

\* C12: close_position on a flat engine returns no record and leaves capital,
\* daily_pnl, daily_trade_count and the trade log unchanged, position none.
C12_CloseOnFlatIsNoOp ==
    (call.op = "close_position" /\ call.pre.position = None)
        => /\ call.ret = None
           /\ position = None
           /\ capital = call.pre.capital
           /\ daily_pnl = call.pre.daily_pnl
           /\ daily_trade_count = call.pre.daily_trade_count
           /\ trades = call.pre.trades
C12_Witness ==
    /\ call.op = "close_position"
    /\ call.pre.position = None
    /\ call.reason = "LIQUIDATION"
    /\ call.ret = None
    /\ capital = initial_capital


\* C13: check_signal called without an index behaves as check_signal called
\* with the index of the last row of the frame: same returned signal, same
\* engine state afterwards.
\* The frame a live caller fetches at `now` ends with the candle of `now`,
\* whose row number is LatestRow.
LatestRow == now - NightFrame.start
C13_NoIndexMeansLastRow ==
    (call.op = "check_signal" /\ call.i = NoIndex)
        => \E differs \in DateDiffers(call.pre, NightFrame, LatestRow) :
              LET r == check_signal(call.pre, NightFrame, LatestRow, differs)
              IN  /\ call.ret = r.ret
                  /\ Engine = r.s


\* C14: check_signal returns at most one signal, the one of the first pattern
\* whose conditions hold in the order trend pullback, mean reversion,
\* breakout, plain momentum, long before short within a pattern; it carries
\* that pattern's confidence (0.7, 0.6, 0.8, 0.5), the current close as price
\* and the current ATR.
PatternOrder ==
    <<[cond |-> "trend_long",     type |-> "long",  confidence |-> 70],
      [cond |-> "trend_short",    type |-> "short", confidence |-> 70],
      [cond |-> "bb_bounce",      type |-> "long",  confidence |-> 60],
      [cond |-> "bb_rejection",   type |-> "short", confidence |-> 60],
      [cond |-> "breakout",       type |-> "long",  confidence |-> 80],
      [cond |-> "breakdown",      type |-> "short", confidence |-> 80],
      [cond |-> "momentum_long",  type |-> "long",  confidence |-> 50],
      [cond |-> "momentum_short", type |-> "short", confidence |-> 50]>>
Scanned == call.op = "check_signal" /\ run.driver = "scanner"
Holding ==
    {k \in 1..Len(PatternOrder) :
        PatternConditions(ScanFrame(run.q), ScanRow)[PatternOrder[k].cond]}
C14_FirstMatchingPatternWins ==
    Scanned =>
        IF Holding = {} THEN call.ret = None
        ELSE LET first == CHOOSE k \in Holding : \A j \in Holding : k <= j
                 current == Row(ScanFrame(run.q), ScanRow)
             IN  /\ call.ret # None
                 /\ call.ret.type = PatternOrder[first].type
                 /\ call.ret.confidence = PatternOrder[first].confidence
                 /\ call.ret.price = current.close
                 /\ call.ret.atr = current.atr
\* a mean-reversion long wins over a breakout long of higher confidence that
\* holds on the same row
C14_Witness ==
    /\ Scanned
    /\ {3, 5} \subseteq Holding
    /\ call.ret # None
    /\ call.ret.pattern = "bb_bounce"
    /\ call.ret.confidence = 60


\* C15 (scenario 1): with capital 10000, leverage 3 and risk_per_trade 0.02,
\* opening a long signal at entry 100 with ATR 2 gives stop-loss 96,
\* take-profit 107, risk amount 200 and size (200 / 4) x 3 = 150, below the
\* cap of 15000, and the position opens with size 150.
Scenario1 ==
    /\ call.op = "open_position"
    /\ call.pre.capital = 1000000
    /\ call.pre.leverage = 3
    /\ call.pre.risk_per_trade = 2
    /\ call.signal.type = "long"
    /\ call.signal.price = 10000
    /\ call.signal.atr = 200
    /\ call.signal.confidence = 100
C15_ScenarioOneOpensSize150 ==
    Scenario1
        => /\ call.ret = TRUE
           /\ position # None
           /\ position.type = "long"
           /\ position.entry_price = 10000
           /\ position.stop_loss = 9600
           /\ position.take_profit = 10700
           /\ position.size = 15000
           /\ position.size < 1500000
           \* risk amount 200 = size x stop distance / leverage
           /\ position.size * (position.entry_price - position.stop_loss)
                = 20000 * leverage * Scale
C15_Witness ==
    /\ Scenario1
    /\ call.pre.position = None
    /\ call.ret = TRUE
    /\ position.size = 15000


\* C16 (scenario 2): for a long with entry 100, stop-loss 96 and take-profit
\* 107, the evaluation at price 108 returns TAKE_PROFIT, and the close that
\* follows at that price realizes (exit price - entry) x size and raises
\* capital by exactly that amount.
Stepped == call.op = "backtest_step" /\ call.pre.position # None
Scenario2 ==
    /\ Stepped
    /\ call.pre.position.type = "long"
    /\ call.pre.position.entry_price = 10000
    /\ call.pre.position.stop_loss = 9600
    /\ call.pre.position.take_profit = 10700
    /\ call.price = 10800
C16_ScenarioTwoTakesProfitAtExitPrice ==
    Scenario2
        => /\ call.exit = [exit |-> TRUE, reason |-> "TAKE_PROFIT"]
           /\ call.trade # None
           /\ call.trade.reason = "TAKE_PROFIT"
           /\ call.trade.exit_price = 10800
           /\ call.trade.pnl * Scale
                = (10800 - 10000) * call.pre.position.size
           /\ capital = call.pre.capital + call.trade.pnl
           /\ trades = Append(call.pre.trades, call.trade)
\* the trailing stop had been armed below the take-profit before
C16_Witness ==
    /\ Scenario2
    /\ Armed(call.pre.position)
    /\ call.trade # None
    /\ call.trade.pnl > 0
    /\ capital > call.pre.capital

\* C17 (scenario 3): the liquidation price is entry x (1 - 0.9 / leverage)
\* for a long and entry x (1 + 0.9 / leverage) for a short; with entry 100
\* and leverage 5 a long's liquidation price is 82, and the price 81 gives
\* LIQUIDATION with realized P&L -0.9 x entry capital whatever the exit price.
Scenario3 ==
    /\ Stepped
    /\ leverage = 5
    /\ call.pre.position.type = "long"
    /\ call.pre.position.entry_price = 10000
C17_ScenarioThreeLiquidates ==
    /\ position # None
         => position.liquidation_price * leverage * 10
              = IF position.type = "long"
                THEN position.entry_price * (leverage * 10 - 9)
                ELSE position.entry_price * (leverage * 10 + 9)
    /\ Scenario3
         => /\ call.pre.position.liquidation_price = 8200
            /\ call.price = 8100
                 => /\ call.exit = [exit |-> TRUE, reason |-> "LIQUIDATION"]
                    /\ call.trade # None
                    /\ call.trade.exit_price = 8100
                    /\ call.trade.pnl * 10
                         = -9 * call.pre.position.entry_capital
                    /\ capital = call.pre.capital + call.trade.pnl
C17_Witness ==
    /\ Scenario3
    /\ call.price = 8100
    /\ call.exit.reason = "LIQUIDATION"
    /\ call.trade.pnl = -900000
    /\ call.trade.pnl
         # Mul(8100 - 10000, call.pre.position.size)


\* C18: for every entry, stop-loss at a non-zero distance and confidence,
\* calculate_position_size returns
\*   min((capital x risk_per_trade x confidence / |entry - stop|) x leverage,
\*       0.5 x capital x leverage);
\* the size of an opened position never exceeds 50 % of capital x leverage,
\* and below the cap the size is proportional to the confidence.
Sized == call.op = "calculate_position_size"
SizeCap == (capital * leverage) \div 2
\* the quotient in one division, all factors in their fixed-point units
SizeByRisk(confidence, distance) ==
    (capital * risk_per_trade * confidence * leverage) \div (100 * distance)
EngineCalls ==
    {"check_signal", "open_position", "should_exit_position",
     "close_position", "analyze_performance"}
C20_OnlyCloseChangesCapital ==
    /\ call.op = "init" => capital = initial_capital
    /\ call.op \in EngineCalls
         => /\ initial_capital = call.pre.initial_capital
            /\ call.op # "close_position" => capital = call.pre.capital
\* a successful open after a close had moved capital away from its start
C20_Witness ==
    /\ call.op = "open_position"
    /\ call.ret = TRUE
    /\ capital # initial_capital
    /\ capital = call.pre.capital
    /\ position # None


\* C21: whatever check_signal returns, it leaves capital, position, the trade
\* log and last_trade_date unchanged, and it changes daily_trade_count and
\* daily_pnl only by the reset of the daily gate: both to zero, with a last
\* trade date on record.
Checked == call.op = "check_signal"
C22_OpenRecordsCountDateAndLevels ==
    (call.op = "open_position" /\ call.pre.position = None /\ call.ret = TRUE)
        => /\ daily_trade_count = call.pre.daily_trade_count + 1
           /\ last_trade_date = Date(DateOfSlot(call.timestamp))
           /\ position # None
           /\ position.entry_capital = capital
           /\ LET stops == calculate_stops(call.pre, call.signal.price,
                                           call.signal.type, call.signal.atr)
              IN  /\ position.stop_loss = stops.stop_loss
                  /\ position.take_profit = stops.take_profit
           /\ position.liquidation_price
                = calculate_liquidation_price(call.pre, call.signal.price,
                                              call.signal.type)

\* C30: check_signal returns none, changing nothing, when the evaluated row
\* has fewer than 5 rows before it, and evaluates the patterns for every row
\* that has at least 5 rows before it (the row is the one of the index, or
\* the latest row when no index is passed).
EvaluatedRow == IF call.i = NoIndex THEN LatestRow ELSE call.i
C30_LookbackDecidesEvaluation ==
    Checked
        => /\ EvaluatedRow < 5
                => /\ call.ret = None
                   /\ Engine = call.pre
           /\ (EvaluatedRow >= 5 /\ ~DailyLimitHit(Engine))
                => call.ret = DetectPattern(NightFrame, EvaluatedRow)


\* C23: analyze_performance returns none on an empty log; for one winning
\* and one losing trade of equal magnitude it reports a win rate of 50% and
\* a profit factor of 1; and the profit factor is +infinity whenever the
\* gross loss is zero.
Analyzed == call.op = "analyze_performance"
Pnls == [k \in 1..Len(trades) |-> trades[k].pnl]
GrossLoss ==
    LET sum[k \in 0..Len(trades)] ==
            IF k = 0 THEN 0
            ELSE sum[k - 1] + (IF Pnls[k] < 0 THEN -Pnls[k] ELSE 0)
    IN  sum[Len(trades)]
EvenPair ==
    /\ Len(trades) = 2
    /\ \E a, b \in 1..2 : Pnls[a] > 0 /\ Pnls[b] = -Pnls[a]
C23_EmptyEvenAndLossFreeLogs ==
    Analyzed
        => /\ trades = <<>> => call.ret = None
           /\ trades # <<>> => call.ret # None
           /\ EvenPair
                => /\ call.ret.win_rate = 50 * Scale
                   /\ call.ret.profit_factor = [kind |-> "float", v |-> Scale]
           /\ (trades # <<>> /\ GrossLoss = 0)
                => call.ret.profit_factor = [kind |-> "inf"]
           /\ (trades # <<>> /\ GrossLoss > 0)
                => call.ret.profit_factor.kind = "float"
\* the log -50.00, +50.00 was analysed
C23_Witness ==
    /\ Analyzed
    /\ EvenPair
    /\ Pnls = <<-5000, 5000>>
    /\ call.ret.win_rate = 50 * Scale

\* C24: a trade is winning iff its pnl is above zero and losing otherwise (a
\* break-even trade is a loss), winning and losing trades add up to the
\* total, and max_consecutive_losses is the length of the longest run of
\* consecutive trades with pnl <= 0.
LossRuns ==
    {r \in (1..Len(trades)) \X (1..Len(trades)) :
        /\ r[1] <= r[2]
        /\ \A k \in r[1]..r[2] : Pnls[k] <= 0}
C24_WinnersLosersAndLossRuns ==
    (Analyzed /\ trades # <<>>)
        => /\ call.ret.total_trades = Len(trades)
           /\ call.ret.winning_trades
                = Cardinality({k \in 1..Len(trades) : Pnls[k] > 0})
           /\ call.ret.losing_trades
                = Cardinality({k \in 1..Len(trades) : ~(Pnls[k] > 0)})
           /\ call.ret.winning_trades + call.ret.losing_trades
                = call.ret.total_trades
           /\ \A r \in LossRuns :
                 r[2] - r[1] + 1 <= call.ret.max_consecutive_losses
           /\ \/ call.ret.max_consecutive_losses = 0
              \/ \E r \in LossRuns :
                    r[2] - r[1] + 1 = call.ret.max_consecutive_losses
\* a log in which a break-even trade follows a losing one, then a win
C24_Witness ==
    /\ Analyzed
    /\ Pnls = <<-5000, 0, 5000>>
    /\ call.ret.losing_trades = 2
    /\ call.ret.max_consecutive_losses = 2


\* C28: calculate_indicators removes only leading warm-up rows: its output
\* is a suffix of the input candle sequence, in the same order, so the most
\* recent input candle is the last output row.
IsSuffix(out, in) ==
    /\ Len(out) <= Len(in)
    /\ \A j \in 1..Len(out) : out[j] = in[Len(in) - Len(out) + j]
C28_IndicatorsKeepASuffix ==
    call.op = "calculate_indicators"
        => /\ IsSuffix(call.ret, call.df)
           /\ call.ret # <<>>
           /\ call.ret[Len(call.ret)] = call.df[Len(call.df)]


\* C27: save_state followed by load_state in a fresh bot restores capital,
\* position, the whole trade log, daily_pnl, daily_trade_count and the last
\* trade date to the values they had when saved, so that the daily gate
\* behaves after the restore as it would have without it.
Restored == call.op = "load_state" /\ call.pre = run.saved
\* what check_signal can do on the latest complete row: result and counters
GateOutcomes(s) ==
    {[ret |-> r.ret, daily_trade_count |-> r.s.daily_trade_count,
      daily_pnl |-> r.s.daily_pnl] :
        r \in {check_signal(s, NightFrame, LatestRow, d) :
                  d \in DateDiffers(s, NightFrame, LatestRow)}}
C27_RestartRestoresState ==
    Restored
        => /\ capital = run.saved.capital
           /\ position = run.saved.position
           /\ trades = run.saved.trades
           /\ daily_pnl = run.saved.daily_pnl
           /\ daily_trade_count = run.saved.daily_trade_count
           /\ last_trade_date = run.saved.last_trade_date
           /\ GateOutcomes(Engine) = GateOutcomes(run.saved)


\* C25: a status request served while the trading loop of the API bot runs
\* never shows a partially updated engine: what it reports (capital,
\* position, performance over the trade log) is the engine as the last
\* completed step of the loop left it, never a trailing stop moved by an
\* exit evaluation whose exit is still to be carried out, and never a close
\* of which only a part has been applied.
Reported(e) ==
    [capital |-> e.capital, position |-> e.position,
     performance |-> analyze_performance(e).ret]
C25_StatusShowsNoPartialUpdate ==
    call.op = "get_status"
        => [capital |-> call.ret.capital, position |-> call.ret.position,
            performance |-> call.ret.performance] = Reported(run.stable)

\* C26: no HTTP handler of the API bot (status, trades, equity, analytics,
\* stop) changes capital, position, the trade log, daily_pnl,
\* daily_trade_count or last_trade_date; only the trading loop does.
Handlers ==
    {"get_status", "get_trades", "get_equity", "get_analytics", "stop_bot"}
C26_HandlersLeaveTheEngineAlone ==
    call.op \in Handlers
        => /\ capital = call.pre.capital
           /\ position = call.pre.position
           /\ trades = call.pre.trades
           /\ daily_pnl = call.pre.daily_pnl
           /\ daily_trade_count = call.pre.daily_trade_count
           /\ last_trade_date = call.pre.last_trade_date
\* /api/stop served in the middle of a close, the position still in place
C26_Witness ==
    /\ call.op = "stop_bot"
    /\ run.pc = "close_daily_pnl"
    /\ position # None
    /\ capital # run.stable.capital
    /\ ~run.is_running

\* C29: every equity point the backtest loop and the API loop record is the
\* capital plus the unrealized P&L of the open position at the step's
\* price, (price - entry) x size for a long and (entry - price) x size for
\* a short, and is the capital when no position is open.
Recorded == call.op \in {"backtest_step", "save_equity_point"}
LastPoint == run.equity_curve[Len(run.equity_curve)]
Unrealized(p, price) ==
    IF p.type = "long" THEN ((price - p.entry_price) * p.size) \div Scale
    ELSE ((p.entry_price - price) * p.size) \div Scale
C29_EquityIsCapitalPlusUnrealized ==
    Recorded
        => /\ LastPoint.timestamp = now
           /\ LastPoint.equity
                = IF call.pre.position = None THEN call.pre.capital
                  ELSE call.pre.capital
                         + Unrealized(call.pre.position, call.price)
\* the API loop recorded a point for a short in profit
C29_Witness ==
    /\ call.op = "save_equity_point"
    /\ call.pre.position # None
    /\ call.pre.position.type = "short"
    /\ call.price < call.pre.position.entry_price
    /\ LastPoint.equity > capital


\* C31: should_exit_position changes an open position in its trailing stop
\* only: type, entry price, size, stop-loss, take-profit, liquidation price,
\* entry time and capital-at-entry stay as they were, as do capital, the
\* trade log and the daily counters, and the position is never cleared.
C31_EvaluationTouchesTrailingStopOnly ==
    Evaluating
        => /\ position # None
           /\ DOMAIN position \subseteq
                  DOMAIN call.pre.position \cup {"trailing_stop"}
           /\ \A f \in DOMAIN call.pre.position \ {"trailing_stop"} :
                 f \in DOMAIN position /\ position[f] = call.pre.position[f]
           /\ capital = call.pre.capital
           /\ trades = call.pre.trades
           /\ daily_pnl = call.pre.daily_pnl
           /\ daily_trade_count = call.pre.daily_trade_count
           /\ last_trade_date = call.pre.last_trade_date
\* an evaluation that returned an exit and moved the trailing stop on its way
C31_Witness ==
    /\ Evaluating
    /\ call.ret.exit
    /\ Armed(call.pre.position)
    /\ position.trailing_stop # call.pre.position.trailing_stop
    /\ position.stop_loss = call.pre.position.stop_loss

\* C32: a trailing stop is written only by an evaluation that is handed an
\* ATR and in which the price has moved in the position's favour by strictly
\* more than 1.5 % of the entry price; the level written is
\* price - atr x stop multiplier x 0.75 for a long and
\* price + atr x stop multiplier x 0.75 for a short; and no evaluation of a
\* position that has never been armed returns TRAILING_STOP.
TrailingWritten ==
    /\ Armed(position)
    /\ Armed(call.pre.position)
         => position.trailing_stop # call.pre.position.trailing_stop
FavourableMove ==
    IF call.pre.position.type = "long"
    THEN call.current_price - call.pre.position.entry_price
    ELSE call.pre.position.entry_price - call.current_price
C32_TrailingStopArming ==
    Evaluating
        => /\ TrailingWritten
                => /\ call.current_atr > 0
                   /\ FavourableMove * 100 * Scale
                        > trailing_activation * call.pre.position.entry_price
                   /\ (position.trailing_stop - call.current_price)
                         * Scale * Scale
                        = (IF position.type = "long" THEN -1 ELSE 1)
                            * call.current_atr * stop_atr_multiplier
                            * TrailingFactor
           /\ call.ret.reason = "TRAILING_STOP" => Armed(position)
\* the first evaluation of a short that armed its trailing stop
C32_Witness ==
    /\ Evaluating
    /\ ~Armed(call.pre.position)
    /\ Armed(position)
    /\ position.type = "short"
    /\ position.trailing_stop > call.current_price


\* C33: after any sequence of opens and closes, capital is initial_capital
\* plus the sum of the pnl of all records of the trade log, and the ROI
\* analyze_performance reports is net_profit / initial_capital x 100.
LoggedPnl ==
    LET sum[k \in 0..Len(trades)] ==
            IF k = 0 THEN 0 ELSE sum[k - 1] + trades[k].pnl
    IN  sum[Len(trades)]
C34_EntryCapitalIsCurrentCapital ==
    /\ position # None => position.entry_capital = capital
    /\ (Closing /\ call.reason = "LIQUIDATION")
         => /\ 10 * capital >= call.pre.capital
            /\ 10 * capital < call.pre.capital + 10
\* a position opened after a losing close was liquidated
C34_Witness ==
    /\ Closing
    /\ call.reason = "LIQUIDATION"
    /\ 10 * capital = call.pre.capital
    /\ call.pre.position.entry_capital = call.pre.capital


\* C35: in a backtest started with positive capital, capital is never
\* negative, and no close loses more than the capital held at the entry.
C35_CapitalNeverNegative ==
    /\ capital >= 0
    /\ (call.op = "backtest_step" /\ call.trade # None)
         => -call.trade.pnl <= call.pre.position.entry_capital


\* C36: when the backtest has finished no position is open; a position that
\* was open after the last candle has been closed at the last close price
\* with reason END_OF_DATA; and every position that was opened has exactly one
\* record in the trade log.
Finished == run.driver = "backtest" /\ run.pc = "done"
LastClose == Row(Feed(run.df), Len(Feed(run.df).rows) - 1).close
C36_BacktestEndsFlat ==
    Finished =>
        /\ position = None
        /\ run.opens = Len(trades)
        /\ call.pre.position # None =>
              /\ Len(trades) = Len(call.pre.trades) + 1
              /\ trades[Len(trades)].reason = "END_OF_DATA"
              /\ trades[Len(trades)].exit_price = LastClose
              /\ trades[Len(trades)].entry_time = call.pre.position.entry_time
\* a run that closed one position inside the loop and one at the end of data
C36_Witness ==
    /\ Finished
    /\ call.pre.position # None
    /\ Len(trades) = 2
    /\ trades[1].reason # "END_OF_DATA"
    /\ trades[2].reason = "END_OF_DATA"


\* C37: in the backtest loop and in both live loops open_position is called
\* only when no position is held, after the exit check of the same step; so
\* at the end of every step the successful opens number the trade records
\* plus one if a position is open, and a step that puts another position in
\* place of the one it found has written a trade record.
StepEnd ==
    \/ run.driver \in {"backtest", "paper_trader"}
    \/ run.driver = "api" /\ run.pc \in {"start", "while", "stopped"}
StepCalls == {"backtest_step", "paper_step", "entry_check"}
C37_OpensOnlyWhenFlat ==
    /\ StepEnd =>
          run.opens = Len(trades) + IF position # None THEN 1 ELSE 0
    /\ (call.op \in StepCalls /\ call.opened) =>
          \/ call.pre.position = None
          \/ /\ call.op # "entry_check"
             /\ call.trade # None
             /\ call.trade.entry_time = call.pre.position.entry_time
    /\ (/\ call.op \in StepCalls
        /\ call.pre.position # None
        /\ position # None
        /\ position.entry_time # call.pre.position.entry_time) =>
          /\ Len(trades) = Len(call.pre.trades) + 1
          /\ trades[Len(trades)].entry_time = call.pre.position.entry_time
\* a backtest step that closed the position it found and opened the next
C37_Witness ==
    /\ call.op = "backtest_step"
    /\ call.pre.position # None
    /\ call.trade # None
    /\ call.opened
    /\ run.opens = 2
    /\ Len(trades) = 1
    /\ position # None


\* C38: when the daily loss-limit gate is evaluated for a row of date D,
\* daily_pnl is the sum of the realized P&L of the trades closed on D so far,
\* a trade opened on an earlier date and closed on D included.
GateEvaluated ==
    /\ call.op = "backtest_step"
    /\ run.i > 5
    /\ call.pre.position = None \/ call.trade # None
    /\ call.opened \/ daily_trade_count < max_trades_per_day
C38_DailyPnlIsTodaysRealizedPnl ==
    GateEvaluated => daily_pnl = PnlClosedOn(trades, DateOfSlot(now))


\* C39: at the end of every iteration of the paper-trading loop the state
\* file holds the engine state in memory (capital, position with its
\* trailing stop, trade log, daily_pnl, daily_trade_count); so after a
\* restart an open position has a trailing stop no looser than before.
Snapshot(file) ==
    [capital |-> file.capital, position |-> file.position,
     trades |-> file.trades, daily_pnl |-> file.daily_pnl,
     daily_trade_count |-> file.daily_trade_count]
OnDisk == IF run.file = NoFile THEN save_state(Fresh(Engine)) ELSE run.file
NoLooser(p, q) ==
    /\ Armed(p)
    /\ IF q.type = "long" THEN p.trailing_stop >= q.trailing_stop
       ELSE p.trailing_stop <= q.trailing_stop
C39_SnapshotEqualsMemory ==
    /\ (run.driver = "paper_trader"
          /\ call.op \in {"paper_step", "fetch_live_data"})
         => Snapshot(OnDisk) = Snapshot(save_state(Engine))
    /\ (run.driver = "paper_trader" /\ call.op = "load_state"
          /\ call.pre.position # None /\ Armed(call.pre.position))
         => /\ position # None
            /\ NoLooser(position, call.pre.position)


\* C40: once the handler of /api/stop has run the trading loop eventually
\* terminates, and it begins no iteration (hence no open and no close) after
\* the one in progress, however the request falls relative to the start of
\* the trading thread.
C40_StopEndsTheLoop ==
    /\ (run.driver = "api" /\ run.stop_requested) ~> (run.pc = "stopped")
    /\ [][(run.driver = "api" /\ run.stop_requested
             /\ run.pc \in {"start", "while"})
            => run'.pc \in {"start", "while", "stopped"}]_vars

=============================================================================
